---- MODULE Spec2Model ----
(***************************************************************************)
(* A model of the MCP tool server: the rate limiter                        *)
(* (mcp_server/utils/rate_limiter.py), the tool decorator                  *)
(* (mcp_server/utils/tool_decorator.py) and the tool manager               *)
(* (mcp_server/core/tool_manager.py).                                      *)
(*                                                                         *)
(* Three specifications share the module:                                  *)
(*   RLSpec   one RateLimiter used by concurrent threads, with a clock;    *)
(*   Spec     the ToolManager, one completed operation per step;           *)
(*   ConcSpec the ToolManager's operations interleaved statement by        *)
(*            statement (watcher thread against the dispatching thread).   *)
(***************************************************************************)
EXTENDS Integers, Sequences, FiniteSets, TLC

(***************************************************************************)
(* Bounds of the model.                                                    *)
(***************************************************************************)
MaxClock == 3

MaxCalls == 4

MaxEdits == 2

MaxTime == 2

MaxEvents == 2

(***************************************************************************)
(* RateLimiter: rate_limiter.py                                            *)
(***************************************************************************)
VARIABLES
  rlClock,      \* datetime.now(), in seconds
  requests,     \* RateLimiter.requests, the deque, oldest first
  lock,         \* RateLimiter.lock: the thread holding it, or NoOwner
  rlpc,         \* each thread's position in wait_for_slot / can_make_request
  now,          \* each thread's local `now` of can_make_request
  sleptAt,      \* the clock when a thread entered time.sleep(1)
  calls,        \* wait_for_slot calls each thread has started
  tsCount,      \* history: how many admissions were appended with each timestamp
  lastAdmitAt,  \* history: the clock at the latest admission, or -1
  firstStart    \* history: the clock at the first wait_for_slot call, or -1

rlVars == <<rlClock, requests, lock, rlpc, now, sleptAt, calls, tsCount,
            lastAdmitAt, firstStart>>

(***************************************************************************)
(* The tools directory, the config directory and the process environment.  *)
(***************************************************************************)
VARIABLES
  files,          \* config.tools_dir: file stem -> the module's content, or NoFile
  configs,        \* config.config_dir: file stem -> the YAML document, or NoConfig
  environ,        \* os.environ: the variables that are set
  edits,          \* how many times the directories were changed
  clock,          \* time.time() / datetime.now(), in seconds
  tools,          \* ToolManager.tools
  handlers,       \* ToolManager.handlers
  rate_limiters,  \* ToolManager.rate_limiters
  last            \* the operation completed last, with what it returned

envVars == <<files, configs, environ, edits, clock>>

mapVars == <<tools, handlers, rate_limiters>>

regVars == <<files, configs, environ, edits, clock, tools, handlers, rate_limiters, last>>

(***************************************************************************)
(* The writing threads and the dispatching thread of ConcSpec.             *)
(***************************************************************************)
VARIABLES
  wpc,            \* each writing thread's position: "idle" or a line of tool_manager.py
  wjob,           \* the call each thread made: "reload", "unload" or "reload all"
  wstem,          \* the stem of the file each thread's call is about
  wdef,           \* load_tool's local tool_func, per thread
  wcfg,           \* load_tool's local tool_config, per thread
  wold,           \* reload_tool found the name registered and unloaded it, per thread
  queue,          \* the files load_tools_from_directory has still to load
  events,         \* file system events, reload_tools calls and tools/call requests so far
  dpc,            \* the dispatching thread's position in handle_tool
  dname,          \* handle_tool's argument name
  dout,           \* how the dispatch ended
  dsaw,           \* history: the calls that ran while the dispatch was under way
  dmid            \* history: the call in whose middle the dispatch read a dict

concVars == <<wpc, wjob, wstem, wdef, wcfg, wold, queue, events, dpc, dname, dout, dsaw,
              dmid>>

(***************************************************************************)
(* The event loop of LoopSpec and the tools/call coroutines it runs.       *)
(***************************************************************************)
VARIABLES
  lpc,            \* each call's position: "new", "ready", a line of handle_tool, "done"
  lname,          \* each call's argument name
  onloop,         \* the coroutine the event loop's thread is executing, or "none"
  lslept          \* the clock when the thread entered time.sleep(1)

loopVars == <<lpc, lname, onloop, lslept>>

VARIABLES
  wtime,          \* time.time(), in half seconds
  last_reload,    \* self.last_reload of the two watchdog handlers
  hcall           \* one handle_tool call and its locals handler and rate_limiter

watchVars == <<wtime, last_reload, hcall>>

(***************************************************************************)
(* RateLimiter: the threads of wait_for_slot.                              *)
(***************************************************************************)
Callers == {"t1", "t2", "t3"}

NoOwner == "none"

\* RateLimiter(max_requests=2, time_window_seconds=2): the limiter the threads of
\* RLSpec share.
max_requests == 2

time_window_seconds == 2

\* time.sleep(1) of wait_for_slot.
SleepSeconds == 1

\* A limiter whose timestamps never leave the window.
IsOldNever(n, ts, w) == FALSE

\* (now - self.requests[0]).total_seconds() > self.time_window_seconds
IsOldInclusive(n, ts, w) == n - ts >= w

IsOld(n, ts, w) == n - ts > w

\* `with self.lock:` may be entered when no other thread holds the lock.
LockFreeNoMutex == TRUE

LockFree == lock = NoOwner

\* len(self.requests) < self.max_requests
HasRoom(reqs, mx) == Len(reqs) < mx

RLInit ==
  /\ rlClock = 0
  /\ requests = <<>>
  /\ lock = NoOwner
  /\ rlpc = [c \in Callers |-> "idle"]
  /\ now = [c \in Callers |-> 0]
  /\ sleptAt = [c \in Callers |-> 0]
  /\ calls = [c \in Callers |-> 0]
  /\ tsCount = [u \in 0..MaxClock |-> 0]
  /\ lastAdmitAt = -1
  /\ firstStart = -1

RECURSIVE SumOver(_, _)
SumOver(f, S) ==
  IF S = {} THEN 0
  ELSE LET x == CHOOSE y \in S : TRUE IN f[x] + SumOver(f, S \ {x})

\* wait_for_slot calls started so far, over all threads.
TotalCalls == SumOver(calls, Callers)

\* popleft while the front is old (lines 28-29).
RECURSIVE DropOld(_, _, _)
DropOld(reqs, n, w) ==
  IF reqs # <<>> /\ IsOld(n, Head(reqs), w) THEN DropOld(Tail(reqs), n, w) ELSE reqs

\* A thread calls wait_for_slot(); its first can_make_request reads the clock
\* (line 25: now = datetime.now(), before the lock is taken).
RLStart(c) ==
  /\ rlpc[c] = "idle"
  /\ TotalCalls < MaxCalls
  /\ calls' = [calls EXCEPT ![c] = @ + 1]
  /\ now' = [now EXCEPT ![c] = rlClock]
  /\ rlpc' = [rlpc EXCEPT ![c] = "acquire"]
  /\ firstStart' = IF firstStart = -1 THEN rlClock ELSE firstStart
  /\ UNCHANGED <<rlClock, requests, lock, sleptAt, tsCount, lastAdmitAt>>
  /\ UNCHANGED <<regVars, concVars, loopVars, watchVars>>

\* line 26: with self.lock
RLAcquire(c) ==
  /\ rlpc[c] = "acquire"
  /\ LockFree
  /\ lock' = c
  /\ rlpc' = [rlpc EXCEPT ![c] = "locked"]
  /\ UNCHANGED <<rlClock, requests, now, sleptAt, calls, tsCount, lastAdmitAt, firstStart>>
  /\ UNCHANGED <<regVars, concVars, loopVars, watchVars>>

\* lines 28-32: drop the old requests from the front, then test
\* len(self.requests) < self.max_requests.
RLPurgeCheck(c) ==
  /\ rlpc[c] = "locked"
  /\ requests' = DropOld(requests, now[c], time_window_seconds)
  /\ rlpc' = [rlpc EXCEPT ![c] = IF HasRoom(requests', max_requests) THEN "append" ELSE "reject"]
  /\ UNCHANGED <<rlClock, lock, now, sleptAt, calls, tsCount, lastAdmitAt, firstStart>>
  /\ UNCHANGED <<regVars, concVars, loopVars, watchVars>>

\* lines 33-34: self.requests.append(now); return True. The lock is released on
\* leaving the with block and wait_for_slot's loop ends (line 39).
RLAppend(c) ==
  /\ rlpc[c] = "append"
  /\ requests' = Append(requests, now[c])
  /\ tsCount' = [tsCount EXCEPT ![now[c]] = @ + 1]
  /\ lastAdmitAt' = rlClock
  /\ lock' = NoOwner
  /\ now' = [now EXCEPT ![c] = 0]
  /\ rlpc' = [rlpc EXCEPT ![c] = "done"]
  /\ UNCHANGED <<rlClock, sleptAt, calls, firstStart>>
  /\ UNCHANGED <<regVars, concVars, loopVars, watchVars>>

\* line 35: return False, releasing the lock; wait_for_slot goes to time.sleep(1)
\* (line 40).
RLReject(c) ==
  /\ rlpc[c] = "reject"
  /\ lock' = NoOwner
  /\ now' = [now EXCEPT ![c] = 0]
  /\ sleptAt' = [sleptAt EXCEPT ![c] = rlClock]
  /\ rlpc' = [rlpc EXCEPT ![c] = "sleep"]
  /\ UNCHANGED <<rlClock, requests, calls, tsCount, lastAdmitAt, firstStart>>
  /\ UNCHANGED <<regVars, concVars, loopVars, watchVars>>

\* time.sleep(1) returns once a second has passed; the loop calls can_make_request
\* again, which reads the clock (line 25).
RLWake(c) ==
  /\ rlpc[c] = "sleep"
  /\ rlClock >= sleptAt[c] + SleepSeconds
  /\ now' = [now EXCEPT ![c] = rlClock]
  /\ sleptAt' = [sleptAt EXCEPT ![c] = 0]
  /\ rlpc' = [rlpc EXCEPT ![c] = "acquire"]
  /\ UNCHANGED <<rlClock, requests, lock, calls, tsCount, lastAdmitAt, firstStart>>
  /\ UNCHANGED <<regVars, concVars, loopVars, watchVars>>

\* wait_for_slot has returned; the thread may call it again.
RLReturn(c) ==
  /\ rlpc[c] = "done"
  /\ TotalCalls < MaxCalls
  /\ rlpc' = [rlpc EXCEPT ![c] = "idle"]
  /\ UNCHANGED <<rlClock, requests, lock, now, sleptAt, calls, tsCount, lastAdmitAt, firstStart>>
  /\ UNCHANGED <<regVars, concVars, loopVars, watchVars>>

\* A second passes.
RLTick ==
  /\ rlClock < MaxClock
  /\ rlClock' = rlClock + 1
  /\ UNCHANGED <<requests, lock, rlpc, now, sleptAt, calls, tsCount, lastAdmitAt, firstStart>>
  /\ UNCHANGED <<regVars, concVars, loopVars, watchVars>>

RLNext ==
  \/ \E c \in Callers : RLStart(c)
  \/ \E c \in Callers : RLAcquire(c)
  \/ \E c \in Callers : RLPurgeCheck(c)
  \/ \E c \in Callers : RLAppend(c)
  \/ \E c \in Callers : RLReject(c)
  \/ \E c \in Callers : RLWake(c)
  \/ \E c \in Callers : RLReturn(c)
  \/ RLTick


(***************************************************************************)
(* The registry: tool definitions, configuration documents, the manager.  *)
(***************************************************************************)
\* Tool names; the tool files are <stem>.py with the stems drawn from the same set, so
\* that a file may declare its own stem as the tool's name or the other name.
Names == {"alpha", "beta"}

Descriptions == {"d1", "d2"}

EnvVars == {"API_KEY"}

\* There is no file <stem>.py.
NoFile == [kind |-> "no file"]

\* A module with no attribute that has register_tool.
NoDecorated == [kind |-> "undecorated"]

\* mcp_tool's argument rate_limit_window as the tool definitions here pass it, in
\* seconds (60 when a definition omits it).
rate_limit_window == 1

\* What @mcp_tool leaves on the wrapped function (tool_decorator.py 76-94).  Every
\* definition declares config_defaults {a: 1, b: 2} and the window
\* rate_limit_window; a definition is plain (no required variable, no rate limit),
\* or has a changed description and rate_limit=1, or requires API_KEY and has
\* rate_limit=0.  rate_limit=None is written <<>>, rate_limit=n is <<n>>.
DecoratedDef(n, d, e, r) ==
  [kind |-> "decorated", TOOL_NAME |-> n, TOOL_DESCRIPTION |-> d,
   REQUIRED_ENV_VARS |-> e, rate_limit |-> r]

Plain(n) == DecoratedDef(n, "d1", {}, <<>>)

Changed(n) == DecoratedDef(n, "d2", {}, <<1>>)

Keyed(n) == DecoratedDef(n, "d1", {"API_KEY"}, <<0>>)

\* An object that has register_tool, TOOL_NAME, TOOL_DESCRIPTION and TOOL_SCHEMA but
\* was not built by @mcp_tool: no REQUIRED_ENV_VARS, no _tool_metadata, and a handler
\* of its own.
Custom(n) == [kind |-> "custom", TOOL_NAME |-> n, TOOL_DESCRIPTION |-> "d1"]

\* What the file <stem>.py may hold.  alpha.py takes every kind of content: a
\* definition of the tool alpha (plain, changed, needing API_KEY, or custom) or a
\* module without a tool; beta.py holds a plain tool of its own name or a second
\* definition of alpha.
FileContents(st) ==
  IF st = "alpha"
    THEN {Plain(st), Changed(st), Keyed(st), Custom(st), NoDecorated}
    ELSE {Plain(st), Changed("alpha")}

\* The stems for which a config/<stem>.yaml is written.
ConfigStems == {"alpha"}

\* What the watched files hold in ConcSpec.
ConcContents(st) == {Plain(st), Changed(st)}

config_defaults == [a |-> 1, b |-> 2]

NoConfig == [kind |-> "no file"]

\* A YAML document that is a mapping.
MappingDoc == [kind |-> "mapping", value |-> [b |-> 3, c |-> 4]]

\* A YAML document whose top level is a non-empty list.
ListDoc == [kind |-> "list"]

ConfigDocs == {MappingDoc, ListDoc}

(***************************************************************************)
(* Python dicts as functions.                                              *)
(***************************************************************************)
EmptyDict == [x \in {} |-> x]

Put(d, k, v) == [x \in DOMAIN d \cup {k} |-> IF x = k THEN v ELSE d[x]]

Pop(d, k) == [x \in DOMAIN d \ {k} |-> d[x]]

\* The two dicts merged with the first one's values kept for the shared keys.
MergeFirstWins(d, e) ==
  [x \in DOMAIN d \cup DOMAIN e |-> IF x \in DOMAIN d THEN d[x] ELSE e[x]]

\* {**d, **e}
Merge(d, e) == [x \in DOMAIN d \cup DOMAIN e |-> IF x \in DOMAIN e THEN e[x] ELSE d[x]]

(***************************************************************************)
(* config_manager.get_tool_config and tool_decorator.register_tool         *)
(***************************************************************************)
\* get_tool_config(stem, refresh=True): {} when the file is missing, else
\* yaml.safe_load(f) or {}.
get_tool_config(stem) ==
  IF configs[stem] = NoConfig THEN [kind |-> "mapping", value |-> EmptyDict]
  ELSE configs[stem]

\* {**metadata.config_defaults, **(config or {})} raises TypeError when config is a
\* non-empty value that is not a mapping.
MergeRaises(cfg) == cfg.kind # "mapping"

\* register_tool(server, config): the handler closes over the wrapped function and
\* the merged configuration.  A custom object's register_tool ignores the
\* configuration.
register_tool(def, cfg) ==
  IF def.kind = "decorated"
    THEN [kind |-> "decorated", description |-> def.TOOL_DESCRIPTION,
          config |-> Merge(config_defaults, cfg.value)]
    ELSE [kind |-> "custom", description |-> def.TOOL_DESCRIPTION,
          config |-> EmptyDict]

(***************************************************************************)
(* RateLimiter as a value: can_make_request and wait_for_slot run by one   *)
(* thread.                                                                 *)
(***************************************************************************)
NewRateLimiter(mx, w) ==
  [max_requests |-> mx, time_window_seconds |-> w, requests |-> <<>>]

\* can_make_request at clock value t.
can_make_request(lim, t) ==
  LET kept == DropOld(lim.requests, t, lim.time_window_seconds)
  IN IF HasRoom(kept, lim.max_requests)
       THEN [ok |-> TRUE, lim |-> [lim EXCEPT !.requests = Append(kept, t)]]
       ELSE [ok |-> FALSE, lim |-> [lim EXCEPT !.requests = kept]]

\* wait_for_slot entered at clock value t: the limiter afterwards and the clock value
\* at which the slot was granted.
RECURSIVE wait_for_slot(_, _)
wait_for_slot(lim, t) ==
  LET r == can_make_request(lim, t)
  IN IF r.ok THEN [lim |-> r.lim, at |-> t]
     ELSE wait_for_slot(r.lim, t + SleepSeconds)

(***************************************************************************)
(* ToolManager: load_tool, unload_tool, reload_tool, reload_tools,         *)
(* load_tools_from_directory, get_tool_list on a registry value            *)
(* [tools, handlers, rate_limiters].                                       *)
(***************************************************************************)
Registry == [tools |-> tools, handlers |-> handlers, rate_limiters |-> rate_limiters]

\* lines 133-134: the required variables os.getenv does not find.
\* The check of lines 132-137 left out: no variable is ever reported missing.
MissingVarsNone(def) == {}

MissingVars(def) ==
  IF "REQUIRED_ENV_VARS" \in DOMAIN def THEN def.REQUIRED_ENV_VARS \ environ ELSE {}

\* line 158 testing rate_limit against None instead of for truth.
HasRateLimitNotNone(def) ==
  /\ def.kind = "decorated"
  /\ def.rate_limit # <<>>

\* line 158: hasattr(tool_func, '_tool_metadata') and _tool_metadata.rate_limit
HasRateLimit(def) ==
  /\ def.kind = "decorated"
  /\ def.rate_limit # <<>>
  /\ def.rate_limit[1] # 0

\* lines 145-149
Descriptor(def) == [name |-> def.TOOL_NAME, description |-> def.TOOL_DESCRIPTION]

\* lines 253-255: the three pops of unload_tool.
\* unload_tool removing nothing.
PopNone(reg, name) == reg

PopAll(reg, name) ==
  [tools |-> Pop(reg.tools, name),
   handlers |-> Pop(reg.handlers, name),
   rate_limiters |-> Pop(reg.rate_limiters, name)]

\* unload_tool removing what the file <name>.py declares.
unload_toolDeclared(reg, name) ==
  IF files[name] \notin {NoFile, NoDecorated}
    THEN PopAll(reg, files[name].TOOL_NAME)
    ELSE reg

unload_tool(reg, name) ==
  IF name \in DOMAIN reg.tools THEN PopAll(reg, name) ELSE reg

\* The key of self.tools, self.handlers and self.rate_limiters for a definition
\* loaded from <stem>.py: the file's stem instead of the declared name.
StoreKeyStem(stem, def) == stem

\* Lines 144-145, 154, 159: tool_name = tool_func.TOOL_NAME is the key.
StoreKey(stem, def) == def.TOOL_NAME

\* load_tool(<stem>.py): the registry afterwards, the value returned, and the
\* name the failure or success is about (the declared name once it is known).
load_tool(reg, stem) ==
  LET def == files[stem]
      cfg == get_tool_config(stem)
  IN IF def = NoFile
       THEN [reg |-> reg, ok |-> FALSE, name |-> stem, why |-> "not found"]
     ELSE IF def = NoDecorated
       THEN [reg |-> reg, ok |-> FALSE, name |-> stem, why |-> "no tool"]
     ELSE IF MissingVars(def) # {}
       THEN [reg |-> reg, ok |-> FALSE, name |-> def.TOOL_NAME, why |-> "missing env"]
     ELSE
       LET name == StoreKey(stem, def)
           withTool == [reg EXCEPT !.tools = Put(reg.tools, name, Descriptor(def))]
       IN IF def.kind = "decorated" /\ MergeRaises(cfg)
            THEN [reg |-> withTool, ok |-> FALSE, name |-> name, why |-> "fault"]
          ELSE
            LET withHandler ==
                  [withTool EXCEPT !.handlers =
                     Put(withTool.handlers, name, register_tool(def, cfg))]
                withLimiter ==
                  IF HasRateLimit(def)
                    THEN [withHandler EXCEPT !.rate_limiters =
                            Put(withHandler.rate_limiters, name,
                                NewRateLimiter(def.rate_limit[1], rate_limit_window))]
                    ELSE withHandler
            IN [reg |-> withLimiter, ok |-> TRUE, name |-> name, why |-> "loaded"]

\* load_tools_from_directory giving up at the first file that fails to load.
RECURSIVE LoadEachStopping(_, _, _)
LoadEachStopping(reg, order, loaded) ==
  IF order = <<>> THEN [reg |-> reg, loaded |-> loaded]
  ELSE LET r == load_tool(reg, Head(order))
       IN IF r.ok THEN LoadEachStopping(r.reg, Tail(order), Append(loaded, Head(order)))
          ELSE [reg |-> r.reg, loaded |-> loaded]

\* load_tools_from_directory over the files in the order glob yields them: the
\* registry afterwards and the stems appended to loaded_tools.
RECURSIVE LoadEach(_, _, _)
LoadEach(reg, order, loaded) ==
  IF order = <<>> THEN [reg |-> reg, loaded |-> loaded]
  ELSE LET r == load_tool(reg, Head(order))
       IN LoadEach(r.reg, Tail(order),
                   IF r.ok THEN Append(loaded, Head(order)) ELSE loaded)

\* The orders in which glob("*.py") may yield the files that exist.
GlobOrders ==
  LET present == {st \in Names : files[st] # NoFile}
  IN { o \in UNION { [1..n -> present] : n \in 0..Cardinality(present) } :
         /\ Len(o) = Cardinality(present)
         /\ \A i, j \in 1..Len(o) : i # j => o[i] # o[j] }

\* reload_tool keeping the registration it finds: a registered name is left as it is.
reload_toolStale(reg, name) ==
  IF name \in DOMAIN reg.tools THEN [reg |-> reg, ok |-> TRUE, why |-> "loaded"]
  ELSE IF files[name] = NoFile THEN [reg |-> reg, ok |-> FALSE, why |-> "not found"]
  ELSE LET r == load_tool(reg, name) IN [reg |-> r.reg, ok |-> r.ok, why |-> r.why]

\* reload_tool restoring the registration it found when the file is gone.
reload_toolRollback(reg, name) ==
  IF files[name] = NoFile THEN [reg |-> reg, ok |-> FALSE, why |-> "not found"]
  ELSE LET r == load_tool(IF name \in DOMAIN reg.tools THEN unload_tool(reg, name) ELSE reg,
                          name)
       IN [reg |-> r.reg, ok |-> r.ok, why |-> r.why]

\* reload_tool, lines 196-219: the registry afterwards, whether "Successfully
\* reloaded" is logged, and why not.
reload_tool(reg, name) ==
  LET unloaded == IF name \in DOMAIN reg.tools THEN unload_tool(reg, name) ELSE reg
  IN IF files[name] = NoFile
       THEN [reg |-> unloaded, ok |-> FALSE, why |-> "not found"]
     ELSE LET r == load_tool(unloaded, name)
          IN [reg |-> r.reg, ok |-> r.ok, why |-> r.why]

EmptyRegistry == [tools |-> EmptyDict, handlers |-> EmptyDict, rate_limiters |-> EmptyDict]

\* reload_tools, lines 233-238, with glob yielding the files in this order.
reload_tools(order) == LoadEach(EmptyRegistry, order, <<>>)

\* The values of a dict, one per key.
RECURSIVE Values(_)
Values(d) ==
  IF DOMAIN d = {} THEN <<>>
  ELSE LET k == CHOOSE x \in DOMAIN d : TRUE
       IN <<d[k]>> \o Values(Pop(d, k))

\* get_tool_list: one Tool per value of self.tools.
get_tool_list(reg) == Values(reg.tools)

(***************************************************************************)
(* Python values, JSON documents and the replies of the handlers.          *)
(***************************************************************************)
PyNone == [type |-> "NoneType"]

PyStr(v) == [type |-> "str", value |-> v]

\* An int, a float (given by its digits) or a bool.
PyScalar(t, v) == [type |-> t, value |-> v]

PyList(seq) == [type |-> "list", value |-> seq]

PyDict(d) == [type |-> "dict", value |-> d]

\* An object json.dumps cannot serialize.
PyObject == [type |-> "object"]

\* `not v`
Falsy(v) ==
  \/ v.type = "NoneType"
  \/ v.type = "list" /\ Len(v.value) = 0
  \/ v.type = "dict" /\ DOMAIN v.value = {}

\* Serializable tells whether json.dumps accepts v or raises TypeError.
Serializable(v) == v.type # "object"

\* json.dumps(v): the JSON text, given by the kind of JSON value it spells (None is
\* null, a str a string, a list an array, a dict an object) and the content.
json_dumps(v) ==
  [json |-> CASE v.type = "NoneType" -> "null"
              [] v.type = "str" -> "string"
              [] v.type = "list" -> "array"
              [] OTHER -> "object",
   of |-> IF v.type = "NoneType" THEN <<>> ELSE v.value]

TextContent(text) == [type |-> "text", text |-> text]

\* [mcp_types.TextContent(type="text", text=json.dumps(doc))]
Reply(doc) == PyList(<<TextContent(json_dumps(doc))>>)

ErrorEnvelope(msg) == PyDict([status |-> "error", error |-> msg])

Returned(v) == [raised |-> FALSE, value |-> v]

Raised(msg) == [raised |-> TRUE, msg |-> msg]

NotCalled == [raised |-> FALSE, called |-> FALSE]

\* What the business function of a decorated tool may do with valid arguments.
BusinessBehaviours ==
  {"str", "int", "float", "bool", "list", "envelope", "plain dict", "none", "object",
   "raise"}

BusinessCall(beh) ==
  CASE beh = "str" -> Returned(PyStr("v"))
    [] beh = "int" -> Returned(PyScalar("int", 7))
    [] beh = "float" -> Returned(PyScalar("float", <<7, 5>>))
    [] beh = "bool" -> Returned(PyScalar("bool", TRUE))
    [] beh = "list" -> Returned(PyList(<<PyStr("v")>>))
    [] beh = "envelope" -> Returned(PyDict([status |-> "success", data |-> "v"]))
    [] beh = "plain dict" -> Returned(PyDict([data |-> "v"]))
    [] beh = "none" -> Returned(PyNone)
    [] beh = "object" -> Returned(PyObject)
    [] OTHER -> Raised(<<"business fault">>)

\* What the handler of a custom tool may do.
CustomBehaviours ==
  {"returns content", "returns none", "returns empty list", "returns dict", "raises"}

CustomCall(beh) ==
  CASE beh = "returns content" ->
         Returned(Reply(PyDict([status |-> "success", data |-> "v"])))
    [] beh = "returns none" -> Returned(PyNone)
    [] beh = "returns empty list" -> Returned(PyList(<<>>))
    [] beh = "returns dict" -> Returned(PyDict([status |-> "success", data |-> "v"]))
    [] OTHER -> Raised(<<"handler fault">>)

Behaviours == BusinessBehaviours \cup CustomBehaviours

\* The result passed to json.dumps as the business function returned it.
NormalizeNothing(v) == v

\* tool_decorator.py 116-119: the return types that are wrapped.
Normalize(v) ==
  IF v.type \in {"str", "int", "float", "bool"} THEN PyDict([result |-> v])
  ELSE IF v.type = "list" THEN PyDict([results |-> v])
  ELSE v

\* The handler register_tool returns with no validation of the arguments: the
\* business function is called with whatever arrived.
decorated_runUnvalidated(args_ok, beh) ==
  LET out == BusinessCall(beh)
  IN [called |-> TRUE,
      ret |-> IF out.raised THEN Returned(Reply(ErrorEnvelope(out.msg)))
              ELSE IF ~Serializable(Normalize(out.value))
                THEN Returned(Reply(ErrorEnvelope(<<"not JSON serializable">>)))
              ELSE Returned(Reply(Normalize(out.value)))]

\* tool_decorator.py 105-134, the handler register_tool returns: validation (110),
\* the business call (113), normalisation and json.dumps all sit in one try; every
\* exception becomes an error envelope.  called tells whether line 113 was reached,
\* ret is what the handler returns.
decorated_run(args_ok, beh) ==
  IF ~args_ok
    THEN [called |-> FALSE,
          ret |-> Returned(Reply(ErrorEnvelope(<<"validation error">>)))]
  ELSE
    LET out == BusinessCall(beh)
    IN [called |-> TRUE,
        ret |-> IF out.raised THEN Returned(Reply(ErrorEnvelope(out.msg)))
                ELSE IF ~Serializable(Normalize(out.value))
                  THEN Returned(Reply(ErrorEnvelope(<<"not JSON serializable">>)))
                ELSE Returned(Reply(Normalize(out.value)))]

decorated_handle_tool(args_ok, beh) == decorated_run(args_ok, beh).ret

\* await handler(name, arguments)
CallHandler(h, args_ok, beh) ==
  IF h.kind = "decorated" THEN decorated_handle_tool(args_ok, beh) ELSE CustomCall(beh)

BehavioursOf(h) == IF h.kind = "decorated" THEN BusinessBehaviours ELSE CustomBehaviours

(***************************************************************************)
(* ToolManager.__init__.handle_tool: the dispatch                          *)
(***************************************************************************)
\* line 35 without the test: every name is taken to be known.
IsKnownToolAlways(reg, name) == TRUE

\* line 35: name in self.tools
IsKnownTool(reg, name) == name \in DOMAIN reg.tools

UnknownToolMsg(name) == <<"Unknown tool: ", name>>

HandlerNotFoundMsg(name) == <<"Handler not found for tool: ", name>>

InvalidResponseMsg(name) == <<"Handler for ", name, " returned invalid response">>

ErrorExecutingMsg(name, msg) == <<"Error executing tool ", name, ": ">> \o msg

\* line 66 testing for None only.
InvalidResultNoneOnly(v) == v.type = "NoneType"

\* line 66: not result or not isinstance(result, list)
InvalidResult(v) == Falsy(v) \/ v.type # "list"

\* lines 63-86 with no except clause: the handler's exception leaves handle_tool.
TryHandlerNoExcept(name, out) ==
  IF out.raised THEN out
  ELSE IF InvalidResult(out.value)
    THEN Returned(Reply(ErrorEnvelope(InvalidResponseMsg(name))))
  ELSE Returned(out.value)

\* lines 63-86: the try around the handler call.
TryHandler(name, out) ==
  IF out.raised
    THEN Returned(Reply(ErrorEnvelope(ErrorExecutingMsg(name, out.msg))))
  ELSE IF InvalidResult(out.value)
    THEN Returned(Reply(ErrorEnvelope(InvalidResponseMsg(name))))
  ELSE Returned(out.value)

\* A handler that reads config/<name>.yaml anew at every call.
bound_configLive(reg, name) ==
  IF reg.handlers[name].kind = "decorated" /\ get_tool_config(name).kind = "mapping"
    THEN Merge(config_defaults, get_tool_config(name).value)
    ELSE reg.handlers[name].config

\* tool_decorator.py 113: config=tool_config, the dict register_tool built at lines
\* 99-102 and the handler closes over.
bound_config(reg, name) == reg.handlers[name].config

\* handle_tool(name, arguments) entered at clock value t, with the handler behaving
\* as beh: the registry afterwards (the limiter's deque changes), the clock value at
\* which it ends, what the bound handler did and what handle_tool did.
handle_tool(reg, name, args_ok, beh, t) ==
  IF ~IsKnownTool(reg, name)
    THEN [reg |-> reg, at |-> t, bound |-> NotCalled,
          out |-> Returned(Reply(ErrorEnvelope(UnknownToolMsg(name))))]
  ELSE IF name \notin DOMAIN reg.handlers
    THEN [reg |-> reg, at |-> t, bound |-> NotCalled,
          out |-> Returned(Reply(ErrorEnvelope(HandlerNotFoundMsg(name))))]
  ELSE
    LET waited ==
          IF name \in DOMAIN reg.rate_limiters
            THEN wait_for_slot(reg.rate_limiters[name], t)
            ELSE [at |-> t]
        reg2 ==
          IF name \in DOMAIN reg.rate_limiters
            THEN [reg EXCEPT !.rate_limiters[name] = waited.lim]
            ELSE reg
        bound == CallHandler(reg.handlers[name], args_ok, beh)
    IN [reg |-> reg2, at |-> waited.at, bound |-> bound,
        out |-> TryHandler(name, bound)]

(***************************************************************************)
(* Spec: the directories change, and the ToolManager's operations run one  *)
(* at a time, each to completion.                                          *)
(***************************************************************************)
SetRegistry(reg) ==
  /\ tools' = reg.tools
  /\ handlers' = reg.handlers
  /\ rate_limiters' = reg.rate_limiters

\* ToolManager.__init__ (lines 25-27) over directories that config.py has just
\* created (_ensure_directories); the process environment is fixed at start.
RegInit ==
  /\ files = [st \in Names |-> NoFile]
  /\ configs = [st \in Names |-> NoConfig]
  /\ environ \in SUBSET EnvVars
  /\ edits = 0
  /\ clock = 0
  /\ tools = EmptyDict
  /\ handlers = EmptyDict
  /\ rate_limiters = EmptyDict
  /\ last = [op |-> "init"]

\* A tool file is written (created or edited).
WriteToolFile(st, def) ==
  /\ edits < MaxEdits
  /\ files[st] # def
  /\ files' = [files EXCEPT ![st] = def]
  /\ edits' = edits + 1
  /\ last' = [op |-> "edit"]
  /\ UNCHANGED <<configs, environ, clock, tools, handlers, rate_limiters>>
  /\ UNCHANGED <<rlVars, concVars, loopVars, watchVars>>

\* A tool file is deleted.
DeleteToolFile(st) ==
  /\ edits < MaxEdits
  /\ files[st] # NoFile
  /\ files' = [files EXCEPT ![st] = NoFile]
  /\ edits' = edits + 1
  /\ last' = [op |-> "edit"]
  /\ UNCHANGED <<configs, environ, clock, tools, handlers, rate_limiters>>
  /\ UNCHANGED <<rlVars, concVars, loopVars, watchVars>>

\* config/<stem>.yaml is written.
WriteConfig(st, doc) ==
  /\ edits < MaxEdits
  /\ configs[st] # doc
  /\ configs' = [configs EXCEPT ![st] = doc]
  /\ edits' = edits + 1
  /\ last' = [op |-> "edit"]
  /\ UNCHANGED <<files, environ, clock, tools, handlers, rate_limiters>>
  /\ UNCHANGED <<rlVars, concVars, loopVars, watchVars>>

\* A second passes.
Tick ==
  /\ clock < MaxTime
  /\ clock' = clock + 1
  /\ last' = [op |-> "edit"]
  /\ UNCHANGED <<files, configs, environ, edits, tools, handlers, rate_limiters>>
  /\ UNCHANGED <<rlVars, concVars, loopVars, watchVars>>

\* load_tool("<stem>.py")
LoadTool(st) ==
  LET r == load_tool(Registry, st)
  IN /\ SetRegistry(r.reg)
     /\ last' = [op |-> "load", stem |-> st, name |-> r.name, ok |-> r.ok, why |-> r.why,
                 fresh |-> r.name \notin (DOMAIN tools \cup DOMAIN handlers
                                            \cup DOMAIN rate_limiters)]
     /\ UNCHANGED <<envVars, rlVars, concVars, loopVars, watchVars>>

\* load_tools_from_directory()
LoadToolsFromDirectory ==
  \E order \in GlobOrders :
    LET r == LoadEach(Registry, order, <<>>)
    IN /\ SetRegistry(r.reg)
       /\ last' = [op |-> "load all", order |-> order, loaded |-> r.loaded]
       /\ UNCHANGED <<envVars, rlVars, concVars, loopVars, watchVars>>

\* reload_tool(name)
ReloadTool(name) ==
  /\ LET r == reload_tool(Registry, name)
     IN /\ SetRegistry(r.reg)
        /\ last' = [op |-> "reload", name |-> name, ok |-> r.ok, why |-> r.why,
                    old |-> IF name \in DOMAIN tools THEN tools[name].description
                                                     ELSE "none"]
  /\ UNCHANGED envVars
  /\ UNCHANGED <<rlVars, concVars, loopVars, watchVars>>

\* ConfigDirectoryHandler.on_modified for config/<st>.yaml, the event accepted:
\* self.server.reload_tool(path.stem), watchdog.py 117-121.
OnConfigModified(st) ==
  /\ configs[st] # NoConfig
  /\ LET r == reload_tool(Registry, st)
     IN /\ SetRegistry(r.reg)
        /\ last' = [op |-> "config event", name |-> st, ok |-> r.ok, why |-> r.why]
  /\ UNCHANGED envVars
  /\ UNCHANGED <<rlVars, concVars, loopVars, watchVars>>

\* reload_tools(): the three dicts are cleared, then load_tools_from_directory().
ReloadTools ==
  \E order \in GlobOrders :
    LET r == reload_tools(order)
    IN /\ SetRegistry(r.reg)
       /\ last' = [op |-> "reload all", order |-> order, loaded |-> r.loaded]
       /\ UNCHANGED <<envVars, rlVars, concVars, loopVars, watchVars>>

\* unload_tool(name)
UnloadTool(name) ==
  /\ SetRegistry(unload_tool(Registry, name))
  /\ last' = [op |-> "unload", name |-> name, was |-> name \in DOMAIN tools]
  /\ UNCHANGED envVars
  /\ UNCHANGED <<rlVars, concVars, loopVars, watchVars>>

\* list_tools (server.py 37-39): get_tool_list()
GetToolList ==
  /\ last' = [op |-> "list", ret |-> get_tool_list(Registry)]
  /\ UNCHANGED <<envVars, mapVars>>
  /\ UNCHANGED <<rlVars, concVars, loopVars, watchVars>>

\* handle_tool(name, arguments): a call of the tool `name`, with arguments that pass
\* the input model or not, and a handler behaving as beh.
Dispatch(name, args_ok, beh) ==
  /\ name \in DOMAIN handlers => beh \in BehavioursOf(handlers[name])
  /\ name \notin DOMAIN handlers => beh = "none"
  /\ ~args_ok => name \in DOMAIN handlers /\ handlers[name].kind = "decorated" /\ beh = "none"
  /\ LET r == handle_tool(Registry, name, args_ok, beh, clock)
     IN /\ r.at <= MaxTime
        /\ SetRegistry(r.reg)
        /\ clock' = r.at
        /\ last' = [op |-> "dispatch", name |-> name, args_ok |-> args_ok, beh |-> beh,
                    bound |-> r.bound, out |-> r.out,
                    config |-> IF r.bound # NotCalled THEN bound_config(Registry, name)
                                                      ELSE EmptyDict]
  /\ UNCHANGED <<files, configs, environ, edits>>
  /\ UNCHANGED <<rlVars, concVars, loopVars, watchVars>>

Next ==
  \/ \E st \in Names : \E def \in FileContents(st) : WriteToolFile(st, def)
  \/ \E st \in Names : DeleteToolFile(st)
  \/ \E st \in ConfigStems, doc \in ConfigDocs : WriteConfig(st, doc)
  \/ Tick
  \/ \E st \in Names : LoadTool(st)
  \/ LoadToolsFromDirectory
  \/ \E name \in Names : ReloadTool(name)
  \/ \E st \in ConfigStems : OnConfigModified(st)
  \/ ReloadTools
  \/ \E name \in Names : UnloadTool(name)
  \/ GetToolList
  \/ \E name \in Names, args_ok \in BOOLEAN, beh \in Behaviours :
       Dispatch(name, args_ok, beh)

(***************************************************************************)
(* The watchdog handlers' clock and the one call of CallSpec at rest.       *)
(***************************************************************************)
\* config.reload_delay, MCP_RELOAD_DELAY with the default "1.0" seconds: two half
\* seconds, so that an event can fall strictly inside the delay.
reload_delay == 2

\* No handler, no limiter: what dict.get returns for a missing key.
PyMissing == [kind |-> "None"]

\* No handle_tool call is under way.
NoCall ==
  [pc |-> "idle", name |-> "none", handler |-> PyMissing, rate_limiter |-> PyMissing,
   shared |-> FALSE, slept |-> 0, waited |-> FALSE, slot |-> -1, ran |-> PyMissing,
   out |-> "none", lost |-> "none"]

\* Both handlers start with last_reload = 0 (watchdog.py 17, 92); time.time() is
\* then far more than reload_delay, here as little more as makes no difference.
WatchInit ==
  /\ wtime = reload_delay
  /\ last_reload = [tools |-> 0, config |-> 0]
  /\ hcall = NoCall

(***************************************************************************)
(* WatchSpec: the events of the tools and the config directory, each       *)
(* handled to its end by ToolDirectoryHandler / ConfigDirectoryHandler      *)
(* (handlers/watchdog.py).                                                  *)
(***************************************************************************)
\* Stems of files whose name starts with "__".
PrivateStems == {"__init__"}

\* A watchdog event: event.is_directory, and the stem and the suffix of
\* Path(event.src_path).
FileEvent(st, sfx) == [is_directory |-> FALSE, stem |-> st, suffix |-> sfx]

DirectoryEvent(st, sfx) == [is_directory |-> TRUE, stem |-> st, suffix |-> sfx]

\* The events the tools directory's observer delivers.
ToolDirEvents ==
  { FileEvent(st, ".py") : st \in Names }
    \cup {FileEvent("__init__", ".py"), FileEvent("alpha", ".txt"),
          DirectoryEvent("alpha", ".py")}

\* The events the config directory's observer delivers.
ConfigDirEvents ==
  { FileEvent(st, ".yaml") : st \in ConfigStems }
    \cup {FileEvent("alpha", ".txt"), DirectoryEvent("alpha", ".yaml")}

\* _should_handle_event with no test of the reload delay.
should_handle_eventNoDelay(ev, lr, t) == ~ev.is_directory

\* _should_handle_event (lines 20-32, 95-107) at time t with self.last_reload = lr.
should_handle_event(ev, lr, t) ==
  /\ ~ev.is_directory
  /\ ~(t - lr < reload_delay)

\* line 47: path.suffix == '.py' and not path.name.startswith('__')
IsToolFile(ev) == ev.suffix = ".py" /\ ev.stem \notin PrivateStems

\* line 117: path.suffix == '.yaml'
IsConfigFile(ev) == ev.suffix = ".yaml"

\* on_modified setting self.last_reload as soon as _should_handle_event accepted.
on_modifiedStamping(reg, lr, ev, t) ==
  IF should_handle_event(ev, lr, t)
    THEN [reg |-> IF IsToolFile(ev) THEN reload_tool(reg, ev.stem).reg ELSE reg,
          last_reload |-> t]
    ELSE [reg |-> reg, last_reload |-> lr]

\* ToolDirectoryHandler.on_modified, lines 39-54: the registry and self.last_reload
\* afterwards.
on_modified(reg, lr, ev, t) ==
  IF should_handle_event(ev, lr, t) /\ IsToolFile(ev)
    THEN [reg |-> reload_tool(reg, ev.stem).reg, last_reload |-> t]
    ELSE [reg |-> reg, last_reload |-> lr]

\* ToolDirectoryHandler.on_created, lines 56-70.
on_created(reg, lr, ev, t) ==
  IF should_handle_event(ev, lr, t) /\ IsToolFile(ev)
    THEN [reg |-> reload_tool(reg, ev.stem).reg, last_reload |-> lr]
    ELSE [reg |-> reg, last_reload |-> lr]

\* on_deleted without the call of _should_handle_event.
on_deletedUnfiltered(reg, lr, ev, t) ==
  IF IsToolFile(ev) /\ ~ev.is_directory
    THEN [reg |-> unload_tool(reg, ev.stem), last_reload |-> lr]
    ELSE [reg |-> reg, last_reload |-> lr]

\* ToolDirectoryHandler.on_deleted, lines 72-86.
on_deleted(reg, lr, ev, t) ==
  IF should_handle_event(ev, lr, t) /\ IsToolFile(ev)
    THEN [reg |-> unload_tool(reg, ev.stem), last_reload |-> lr]
    ELSE [reg |-> reg, last_reload |-> lr]

\* ConfigDirectoryHandler.on_modified, lines 109-124.
config_on_modified(reg, lr, ev, t) ==
  IF should_handle_event(ev, lr, t) /\ IsConfigFile(ev)
    THEN [reg |-> reload_tool(reg, ev.stem).reg, last_reload |-> t]
    ELSE [reg |-> reg, last_reload |-> lr]

\* The tools directory's observer calls on_modified, on_created or on_deleted with
\* an event; an event about a tool file tells what happened to it last.
ToolEvent(kind, ev) ==
  /\ (~ev.is_directory /\ IsToolFile(ev))
       => (kind = "deleted" <=> files[ev.stem] = NoFile)
  /\ LET r == CASE kind = "modified" -> on_modified(Registry, last_reload.tools, ev, wtime)
                [] kind = "created" -> on_created(Registry, last_reload.tools, ev, wtime)
                [] OTHER -> on_deleted(Registry, last_reload.tools, ev, wtime)
     IN /\ SetRegistry(r.reg)
        /\ last_reload' = [last_reload EXCEPT !.tools = r.last_reload]
  /\ last' = [op |-> "tool event", kind |-> kind, ev |-> ev, at |-> wtime,
              since |-> last_reload.tools, was |-> ev.stem \in DOMAIN tools]
  /\ UNCHANGED <<envVars, wtime, hcall>>
  /\ UNCHANGED <<rlVars, concVars, loopVars>>

\* The config directory's observer calls on_modified with an event.
ConfigEvent(ev) ==
  /\ (~ev.is_directory /\ IsConfigFile(ev)) => configs[ev.stem] # NoConfig
  /\ LET r == config_on_modified(Registry, last_reload.config, ev, wtime)
     IN /\ SetRegistry(r.reg)
        /\ last_reload' = [last_reload EXCEPT !.config = r.last_reload]
  /\ last' = [op |-> "config event", kind |-> "modified", ev |-> ev, at |-> wtime,
              since |-> last_reload.config, was |-> ev.stem \in DOMAIN tools]
  /\ UNCHANGED <<envVars, wtime, hcall>>
  /\ UNCHANGED <<rlVars, concVars, loopVars>>

\* Half a second passes.
WatchTick ==
  /\ wtime < reload_delay + MaxClock
  /\ wtime' = wtime + 1
  /\ UNCHANGED <<last_reload, hcall>>
  /\ UNCHANGED <<rlVars, regVars, concVars, loopVars>>

WatchNext ==
  \/ \E st \in Names : \E def \in ConcContents(st) : WriteToolFile(st, def)
  \/ \E st \in Names : DeleteToolFile(st)
  \/ \E st \in ConfigStems : WriteConfig(st, MappingDoc)
  \/ \E kind \in {"modified", "created", "deleted"} : \E ev \in ToolDirEvents :
       ToolEvent(kind, ev)
  \/ \E ev \in ConfigDirEvents : ConfigEvent(ev)
  \/ WatchTick

(***************************************************************************)
(* CallSpec: one handle_tool call at a time, statement by statement, with  *)
(* its locals handler and rate_limiter, while the watchdog threads unload  *)
(* and reload tools.  hcall.rate_limiter is the state of the RateLimiter   *)
(* object the local refers to; hcall.shared says that                      *)
(* self.rate_limiters[name] is still that same object.                     *)
(***************************************************************************)
\* dict.get(k): the entry, or None.
Get(d, k) == IF k \in DOMAIN d THEN d[k] ELSE PyMissing

\* handle_tool looking self.handlers / self.rate_limiters up again at each use.
capturedLookup(local, current) == current

\* Lines 61 and 65 use the locals assigned at lines 46 and 59, whatever the dicts
\* hold by then.
captured(local, current) == local

\* Lines 35-59: the name is tested, and handler and rate_limiter are assigned.
CallLookup(name) ==
  /\ hcall.pc \in {"idle", "done"}
  /\ hcall' =
       IF ~IsKnownTool(Registry, name)
         THEN [NoCall EXCEPT !.pc = "done", !.name = name, !.out = "unknown tool"]
       ELSE IF Get(handlers, name) = PyMissing
         THEN [NoCall EXCEPT !.pc = "done", !.name = name, !.out = "handler not found"]
       ELSE [NoCall EXCEPT !.pc = "60", !.name = name,
                           !.handler = Get(handlers, name),
                           !.rate_limiter = Get(rate_limiters, name),
                           !.shared = name \in DOMAIN rate_limiters]
  /\ UNCHANGED <<envVars, mapVars, last, wtime, last_reload>>
  /\ UNCHANGED <<rlVars, concVars, loopVars>>

\* Lines 60-61 and wait_for_slot's loop test: with no limiter the call goes on to
\* line 65; otherwise can_make_request() runs on the limiter object, which is the
\* dict's entry too as long as the entry was not popped or replaced.
CallTrySlot ==
  /\ hcall.pc = "60"
  /\ LET lim == captured(hcall.rate_limiter, Get(rate_limiters, hcall.name))
     IN IF lim = PyMissing
          THEN /\ hcall' = [hcall EXCEPT !.pc = "65"]
               /\ UNCHANGED rate_limiters
          ELSE LET r == can_make_request(lim, clock)
               IN /\ hcall' = [hcall EXCEPT !.pc = IF r.ok THEN "65" ELSE "sleep",
                                            !.rate_limiter = r.lim,
                                            !.slot = IF r.ok THEN clock ELSE @,
                                            !.slept = clock,
                                            !.waited = @ \/ ~r.ok]
                  /\ rate_limiters' =
                       IF hcall.shared
                         THEN [rate_limiters EXCEPT ![hcall.name] = r.lim]
                         ELSE rate_limiters
  /\ UNCHANGED <<envVars, tools, handlers, last, wtime, last_reload>>
  /\ UNCHANGED <<rlVars, concVars, loopVars>>

\* time.sleep(1) of wait_for_slot returns.
CallWake ==
  /\ hcall.pc = "sleep"
  /\ clock >= hcall.slept + SleepSeconds
  /\ hcall' = [hcall EXCEPT !.pc = "60"]
  /\ UNCHANGED <<envVars, mapVars, last, wtime, last_reload>>
  /\ UNCHANGED <<rlVars, concVars, loopVars>>

\* Line 65: result = await handler(name, arguments).
CallInvoke ==
  /\ hcall.pc = "65"
  /\ hcall' = [hcall EXCEPT !.pc = "done", !.out = "called",
                            !.ran = captured(hcall.handler, Get(handlers, hcall.name))]
  /\ UNCHANGED <<envVars, mapVars, last, wtime, last_reload>>
  /\ UNCHANGED <<rlVars, concVars, loopVars>>

\* A watchdog thread runs unload_tool(name): a popped limiter is no longer the
\* dict's entry.  hcall.lost keeps where the call for that name was at the time.
CallUnload(name) ==
  /\ SetRegistry(unload_tool(Registry, name))
  /\ hcall' = [hcall EXCEPT !.shared = @ /\ name # hcall.name,
                            !.lost = IF name = hcall.name /\ @ = "none"
                                       THEN hcall.pc ELSE @]
  /\ last' = [op |-> "unload", name |-> name]
  /\ UNCHANGED <<envVars, wtime, last_reload>>
  /\ UNCHANGED <<rlVars, concVars, loopVars>>

\* A watchdog thread runs reload_tool(name): the limiter the dict holds afterwards
\* is a new object.
CallReload(name) ==
  /\ SetRegistry(reload_tool(Registry, name).reg)
  /\ hcall' = [hcall EXCEPT !.shared = @ /\ name # hcall.name,
                            !.lost = IF name = hcall.name /\ @ = "none"
                                       THEN hcall.pc ELSE @]
  /\ last' = [op |-> "reload", name |-> name]
  /\ UNCHANGED <<envVars, wtime, last_reload>>
  /\ UNCHANGED <<rlVars, concVars, loopVars>>

CallNext ==
  \/ \E st \in Names : \E def \in ConcContents(st) : WriteToolFile(st, def)
  \/ \E st \in Names : DeleteToolFile(st)
  \/ Tick
  \/ \E name \in Names : CallLookup(name)
  \/ CallTrySlot
  \/ CallWake
  \/ CallInvoke
  \/ \E name \in Names : CallUnload(name)
  \/ \E name \in Names : CallReload(name)

(***************************************************************************)
(* LoopSpec: handle_tool is a coroutine (async def, tool_manager.py 30) and *)
(* uvicorn's server.run() (server.py 176-177) runs every coroutine on the  *)
(* one thread of its event loop: a coroutine keeps the thread until it     *)
(* awaits or returns.  rate_limiter.wait_for_slot() is an ordinary call    *)
(* (line 61) that sleeps with time.sleep(1) (rate_limiter.py 40).          *)
(***************************************************************************)
Calls == {"c1", "c2", "c3"}

LoopInit ==
  /\ lpc = [c \in Calls |-> "new"]
  /\ lname = [c \in Calls |-> "none"]
  /\ onloop = "none"
  /\ lslept = 0

loopFrame ==
  <<rlVars, concVars, watchVars, files, configs, environ, edits, tools, handlers, last>>

\* The event loop's thread is free to start the coroutine of the call c.
CanRun(c) == onloop = "none" /\ lpc[c] = "ready"

\* A client sends tools/call for a registered tool: its handle_tool coroutine is
\* waiting to be run by the event loop.
Arrive(c, name) ==
  /\ lpc[c] = "new"
  /\ name \in DOMAIN tools
  /\ lpc' = [lpc EXCEPT ![c] = "ready"]
  /\ lname' = [lname EXCEPT ![c] = name]
  /\ UNCHANGED <<onloop, lslept, clock, rate_limiters, loopFrame>>

\* The event loop starts the coroutine: lines 31-56 find the tool and its handler.
LoopRun(c) ==
  /\ CanRun(c)
  /\ onloop' = c
  /\ lpc' = [lpc EXCEPT ![c] = "59"]
  /\ UNCHANGED <<lname, lslept, clock, rate_limiters, loopFrame>>

\* lines 59-61 and wait_for_slot's loop test: without a limiter the coroutine goes
\* on to its handler; with one, can_make_request() admits it or the thread enters
\* time.sleep(1).
LoopLimiter(c) ==
  /\ onloop = c
  /\ lpc[c] = "59"
  /\ IF lname[c] \in DOMAIN rate_limiters
       THEN LET r == can_make_request(rate_limiters[lname[c]], clock)
            IN /\ rate_limiters' = [rate_limiters EXCEPT ![lname[c]] = r.lim]
               /\ lpc' = [lpc EXCEPT ![c] = IF r.ok THEN "65" ELSE "sleep"]
               /\ lslept' = IF r.ok THEN lslept ELSE clock
       ELSE /\ lpc' = [lpc EXCEPT ![c] = "65"]
            /\ UNCHANGED <<rate_limiters, lslept>>
  /\ UNCHANGED <<lname, onloop, clock, loopFrame>>

\* time.sleep(1) returns after a second and wait_for_slot tests again.
LoopWake(c) ==
  /\ onloop = c
  /\ lpc[c] = "sleep"
  /\ clock >= lslept + SleepSeconds
  /\ lpc' = [lpc EXCEPT ![c] = "59"]
  /\ UNCHANGED <<lname, onloop, lslept, clock, rate_limiters, loopFrame>>

\* line 65: result = await handler(name, arguments); the reply is returned and the
\* thread goes back to the event loop.
LoopAwait(c) ==
  /\ onloop = c
  /\ lpc[c] = "65"
  /\ lpc' = [lpc EXCEPT ![c] = "done"]
  /\ onloop' = "none"
  /\ UNCHANGED <<lname, lslept, clock, rate_limiters, loopFrame>>

\* A second passes.
LoopTick ==
  /\ clock < MaxTime
  /\ clock' = clock + 1
  /\ UNCHANGED <<lpc, lname, onloop, lslept, rate_limiters, loopFrame>>

LoopNext ==
  \/ \E c \in Calls : \E name \in Names : Arrive(c, name)
  \/ \E c \in Calls : LoopRun(c)
  \/ \E c \in Calls : LoopLimiter(c)
  \/ \E c \in Calls : LoopWake(c)
  \/ \E c \in Calls : LoopAwait(c)
  \/ LoopTick

(***************************************************************************)
(* ConcSpec: the two watchdog observers' threads run reload_tool and        *)
(* unload_tool (handlers/watchdog.py) and a third thread runs reload_tools, *)
(* one statement at a time, while the serving thread runs handle_tool; the *)
(* three dicts are shared and no lock guards them.                         *)
(***************************************************************************)
\* The threads that write the three dicts: the observer of the tools directory and
\* the observer of the config directory (server.py 98-117), and a thread that
\* calls MCPServer.reload_tools() (server.py 155-157).
Threads == {"tools", "config", "caller"}

ConcInit ==
  /\ wpc = [w \in Threads |-> "idle"]
  /\ wjob = [w \in Threads |-> "none"]
  /\ wstem = [w \in Threads |-> "none"]
  /\ wdef = [w \in Threads |-> NoFile]
  /\ wcfg = [w \in Threads |-> NoConfig]
  /\ wold = [w \in Threads |-> FALSE]
  /\ queue = <<>>
  /\ events = 0
  /\ dpc = "idle"
  /\ dname = "none"
  /\ dout = "none"
  /\ dsaw = {}
  /\ dmid = "none"

Init == RegInit /\ RLInit /\ ConcInit /\ LoopInit /\ WatchInit

\* The start of the specifications that leave the environment variables aside:
\* none is set.
InitBare == Init /\ environ = {}

\* The server after construction (server.py 44-47) over a tools directory that
\* holds alpha.py: load_tools_from_directory() has loaded it, and the observers and
\* the serving thread start.
InitServing ==
  /\ RLInit
  /\ ConcInit
  /\ LoopInit
  /\ WatchInit
  /\ files = [st \in Names |-> IF st = "alpha" THEN Plain(st) ELSE NoFile]
  /\ configs = [st \in Names |-> NoConfig]
  /\ environ = {}
  /\ edits = 0
  /\ clock = 0
  /\ tools = LoadEach(EmptyRegistry, <<"alpha">>, <<>>).reg.tools
  /\ handlers = LoadEach(EmptyRegistry, <<"alpha">>, <<>>).reg.handlers
  /\ rate_limiters = LoadEach(EmptyRegistry, <<"alpha">>, <<>>).reg.rate_limiters
  /\ last = [op |-> "init"]

concFrame == <<rlVars, loopVars, watchVars, environ, edits, clock, last>>

\* The dispatching thread's variables that a step of another thread leaves alone.
dispatchFrame == <<dpc, dname, dout, dmid>>

\* A step of a thread running `job` is recorded when a dispatch is under way.
Seen(job) == dsaw' = IF dpc # "idle" THEN dsaw \cup {job} ELSE dsaw

\* Thread w moves to the position pc with these locals.  The locals of a call
\* that has returned are gone: tool_func and tool_config when load_tool returns,
\* the name and what reload_tool found when the thread's call returns.
Continue(w, pc, st, def, cfg, old) ==
  /\ wpc' = [wpc EXCEPT ![w] = pc]
  /\ wstem' = [wstem EXCEPT ![w] = IF pc = "idle" THEN "none" ELSE st]
  /\ wold' = [wold EXCEPT ![w] = IF pc = "idle" THEN FALSE ELSE old]
  /\ wdef' = [wdef EXCEPT ![w] = IF pc \in {"idle", "180"} THEN NoFile ELSE def]
  /\ wcfg' = [wcfg EXCEPT ![w] = IF pc \in {"idle", "180"} THEN NoConfig ELSE cfg]

\* Thread w moves to the position pc.
Goto(w, pc) == Continue(w, pc, wstem[w], wdef[w], wcfg[w], wold[w])

\* What is left of the thread's call after unload_tool returns.
AfterUnload(w) == IF wjob[w] = "reload" THEN "202" ELSE "idle"

\* What is left of the thread's call after load_tool returns.
AfterLoad(w) == IF wjob[w] = "reload all" THEN "180" ELSE "idle"

\* Thread w is inside reload_tool(name) after it removed the descriptor it found
\* and before load_tool stores the new one.
MidReload(w, name) ==
  /\ wjob[w] = "reload"
  /\ wstem[w] = name
  /\ wold[w]
  /\ wpc[w] \in {"254", "255", "202", "145"}

\* Thread w is inside load_tool after it stored the descriptor of `name` and
\* before it stores the handler.
MidLoad(w, name) ==
  /\ wpc[w] = "153"
  /\ wdef[w].TOOL_NAME = name

\* A tool file is created or modified, and the tools observer's thread enters
\* on_created / on_modified: self.server.reload_tool(path.stem).
WatchWritten(st, def) ==
  /\ wpc["tools"] = "idle"
  /\ events < MaxEvents
  /\ files[st] # def
  /\ files' = [files EXCEPT ![st] = def]
  /\ events' = events + 1
  /\ Continue("tools", "197", st, NoFile, NoConfig, FALSE)
  /\ wjob' = [wjob EXCEPT !["tools"] = "reload"]
  /\ Seen("reload")
  /\ UNCHANGED <<queue, configs, dispatchFrame, mapVars, concFrame>>

\* A tool file is deleted: on_deleted calls self.server.unload_tool(path.stem).
WatchDeleted(st) ==
  /\ wpc["tools"] = "idle"
  /\ events < MaxEvents
  /\ files[st] # NoFile
  /\ files' = [files EXCEPT ![st] = NoFile]
  /\ events' = events + 1
  /\ Continue("tools", "251", st, NoFile, NoConfig, FALSE)
  /\ wjob' = [wjob EXCEPT !["tools"] = "unload"]
  /\ Seen("unload")
  /\ UNCHANGED <<queue, configs, dispatchFrame, mapVars, concFrame>>

\* config/<stem>.yaml is written, and the config observer's thread enters
\* ConfigDirectoryHandler.on_modified: self.server.reload_tool(path.stem).
WatchConfigWritten(st) ==
  /\ wpc["config"] = "idle"
  /\ events < MaxEvents
  /\ configs' = [configs EXCEPT ![st] = MappingDoc]
  /\ events' = events + 1
  /\ Continue("config", "197", st, NoFile, NoConfig, FALSE)
  /\ wjob' = [wjob EXCEPT !["config"] = "reload"]
  /\ Seen("reload")
  /\ UNCHANGED <<queue, files, dispatchFrame, mapVars, concFrame>>

\* reload_tools() is called, lines 223-230.
CallReloadTools ==
  /\ wpc["caller"] = "idle"
  /\ events < MaxEvents
  /\ events' = events + 1
  /\ Goto("caller", "233")
  /\ wjob' = [wjob EXCEPT !["caller"] = "reload all"]
  /\ Seen("reload all")
  /\ UNCHANGED <<queue, files, configs, dispatchFrame,
                 mapVars, concFrame>>

\* line 233: self.tools.clear()
ClearTools ==
  /\ wpc["caller"] = "233"
  /\ tools' = EmptyDict
  /\ Goto("caller", "234")
  /\ Seen("reload all")
  /\ UNCHANGED <<wjob, queue, events, files, configs,
                 handlers, rate_limiters, dispatchFrame, concFrame>>

\* line 234: self.handlers.clear()
ClearHandlers ==
  /\ wpc["caller"] = "234"
  /\ handlers' = EmptyDict
  /\ Goto("caller", "235")
  /\ Seen("reload all")
  /\ UNCHANGED <<wjob, queue, events, files, configs,
                 tools, rate_limiters, dispatchFrame, concFrame>>

\* line 235: self.rate_limiters.clear(); then load_tools_from_directory() lists the
\* directory (line 180).
ClearLimiters ==
  /\ wpc["caller"] = "235"
  /\ rate_limiters' = EmptyDict
  /\ \E order \in GlobOrders : queue' = order
  /\ Goto("caller", "180")
  /\ Seen("reload all")
  /\ UNCHANGED <<wjob, events, files, configs,
                 tools, handlers, dispatchFrame, concFrame>>

\* lines 180-183: the next file of the listing goes to load_tool; after the last
\* one reload_tools returns.
NextFile ==
  /\ wpc["caller"] = "180"
  /\ IF queue = <<>>
       THEN /\ Goto("caller", "idle")
            /\ UNCHANGED queue
       ELSE /\ Continue("caller", "202", Head(queue), NoFile, NoConfig, FALSE)
            /\ queue' = Tail(queue)
  /\ Seen("reload all")
  /\ UNCHANGED <<wjob, events, files, configs, mapVars,
                 dispatchFrame, concFrame>>

\* reload_tool line 197: if tool_name in self.tools, call unload_tool.
ReloadCheckKnown(w) ==
  /\ wpc[w] = "197"
  /\ Continue(w, IF wstem[w] \in DOMAIN tools THEN "251" ELSE "202",
              wstem[w], wdef[w], wcfg[w], wstem[w] \in DOMAIN tools)
  /\ Seen(wjob[w])
  /\ UNCHANGED <<wjob, queue, events, files, configs, mapVars,
                 dispatchFrame, concFrame>>

\* unload_tool line 251: if tool_name in self.tools.
UnloadCheckKnown(w) ==
  /\ wpc[w] = "251"
  /\ Goto(w, IF wstem[w] \in DOMAIN tools THEN "253" ELSE AfterUnload(w))
  /\ Seen(wjob[w])
  /\ UNCHANGED <<wjob, queue, events, files, configs,
                 mapVars, dispatchFrame, concFrame>>

\* line 253: self.tools.pop(tool_name, None)
UnloadPopTool(w) ==
  /\ wpc[w] = "253"
  /\ tools' = Pop(tools, wstem[w])
  /\ Goto(w, "254")
  /\ Seen(wjob[w])
  /\ UNCHANGED <<wjob, queue, events, files, configs,
                 handlers, rate_limiters, dispatchFrame, concFrame>>

\* line 254: self.handlers.pop(tool_name, None)
UnloadPopHandler(w) ==
  /\ wpc[w] = "254"
  /\ handlers' = Pop(handlers, wstem[w])
  /\ Goto(w, "255")
  /\ Seen(wjob[w])
  /\ UNCHANGED <<wjob, queue, events, files, configs,
                 tools, rate_limiters, dispatchFrame, concFrame>>

\* line 255: self.rate_limiters.pop(tool_name, None); unload_tool returns.
UnloadPopLimiter(w) ==
  /\ wpc[w] = "255"
  /\ rate_limiters' = Pop(rate_limiters, wstem[w])
  /\ Goto(w, AfterUnload(w))
  /\ Seen(wjob[w])
  /\ UNCHANGED <<wjob, queue, events, files, configs,
                 tools, handlers, dispatchFrame, concFrame>>

\* reload_tool lines 202-215 and load_tool lines 101-141: the file is looked up,
\* the module executed, the object with register_tool found, the environment
\* checked and the configuration read.  Nothing of the dicts is touched.
LoadImport(w) ==
  /\ wpc[w] = "202"
  /\ LET def == files[wstem[w]]
         fails == def = NoFile \/ def = NoDecorated \/ MissingVars(def) # {}
     IN Continue(w, IF fails THEN AfterLoad(w) ELSE "145",
                 wstem[w], def, get_tool_config(wstem[w]), wold[w])
  /\ Seen(wjob[w])
  /\ UNCHANGED <<wjob, queue, events, files, configs, mapVars,
                 dispatchFrame, concFrame>>

\* lines 144-149: self.tools[tool_name] = {...}
LoadStoreTool(w) ==
  /\ wpc[w] = "145"
  /\ tools' = Put(tools, wdef[w].TOOL_NAME, Descriptor(wdef[w]))
  /\ Goto(w, "153")
  /\ Seen(wjob[w])
  /\ UNCHANGED <<wjob, queue, events, files, configs,
                 handlers, rate_limiters, dispatchFrame, concFrame>>

\* lines 153-154: handler = tool_func.register_tool(...); self.handlers[tool_name] =
\* handler.  A TypeError of register_tool ends load_tool in its except clause.
LoadStoreHandler(w) ==
  /\ wpc[w] = "153"
  /\ LET raises == wdef[w].kind = "decorated" /\ MergeRaises(wcfg[w])
     IN /\ handlers' = IF raises THEN handlers
                       ELSE Put(handlers, wdef[w].TOOL_NAME,
                                register_tool(wdef[w], wcfg[w]))
        /\ Goto(w, IF raises THEN AfterLoad(w) ELSE "158")
  /\ Seen(wjob[w])
  /\ UNCHANGED <<wjob, queue, events, files, configs,
                 tools, rate_limiters, dispatchFrame, concFrame>>

\* lines 158-165: the limiter is stored when a rate limit is declared; return True.
LoadStoreLimiter(w) ==
  /\ wpc[w] = "158"
  /\ rate_limiters' =
       IF HasRateLimit(wdef[w])
         THEN Put(rate_limiters, wdef[w].TOOL_NAME,
                  NewRateLimiter(wdef[w].rate_limit[1], rate_limit_window))
         ELSE rate_limiters
  /\ Goto(w, AfterLoad(w))
  /\ Seen(wjob[w])
  /\ UNCHANGED <<wjob, queue, events, files, configs,
                 tools, handlers, dispatchFrame, concFrame>>

\* The variables of the writing threads and of the directories, which a step of
\* handle_tool leaves alone.
threadFrame == <<wpc, wjob, wstem, wdef, wcfg, wold, queue, files, configs>>

\* A client's tools/call arrives: handle_tool(name, arguments) starts.
HandleStart(name) ==
  /\ dpc = "idle"
  /\ events < MaxEvents
  /\ events' = events + 1
  /\ dname' = name
  /\ dout' = "none"
  /\ dsaw' = { wjob[w] : w \in {t \in Threads : wpc[t] # "idle"} }
  /\ dmid' = "none"
  /\ dpc' = "35"
  /\ UNCHANGED <<threadFrame, mapVars, concFrame>>

\* line 35: if name not in self.tools, the Unknown tool envelope is returned.
HandleCheckTool ==
  /\ dpc = "35"
  /\ dout' = IF IsKnownTool(Registry, dname) THEN dout ELSE "unknown tool"
  /\ dmid' = IF ~IsKnownTool(Registry, dname) /\ \E w \in Threads : MidReload(w, dname)
               THEN "reload" ELSE dmid
  /\ dpc' = IF IsKnownTool(Registry, dname) THEN "46" ELSE "idle"
  /\ UNCHANGED <<dname, dsaw, events, threadFrame, mapVars, concFrame>>

\* lines 46-47: handler = self.handlers.get(name); if not handler, the Handler not
\* found envelope is returned.
HandleGetHandler ==
  /\ dpc = "46"
  /\ dout' = IF dname \in DOMAIN handlers THEN dout ELSE "handler not found"
  /\ dmid' = IF dname \notin DOMAIN handlers /\ \E w \in Threads : MidLoad(w, dname)
               THEN "load" ELSE dmid
  /\ dpc' = IF dname \in DOMAIN handlers THEN "59" ELSE "idle"
  /\ UNCHANGED <<dname, dsaw, events, threadFrame, mapVars, concFrame>>

\* lines 59-65: rate_limiter = self.rate_limiters.get(name), then the handler is
\* awaited, behind the limiter when one was found.
HandleCall ==
  /\ dpc = "59"
  /\ dout' = IF dname \in DOMAIN rate_limiters THEN "called, limited" ELSE "called"
  /\ dpc' = "idle"
  /\ UNCHANGED <<dname, dsaw, dmid, events, threadFrame, mapVars, concFrame>>

ConcNext ==
  \/ \E st \in Names : \E def \in ConcContents(st) : WatchWritten(st, def)
  \/ \E st \in Names : WatchDeleted(st)
  \/ \E st \in ConfigStems : WatchConfigWritten(st)
  \/ CallReloadTools
  \/ ClearTools
  \/ ClearHandlers
  \/ ClearLimiters
  \/ NextFile
  \/ \E w \in Threads : ReloadCheckKnown(w)
  \/ \E w \in Threads : UnloadCheckKnown(w)
  \/ \E w \in Threads : UnloadPopTool(w)
  \/ \E w \in Threads : UnloadPopHandler(w)
  \/ \E w \in Threads : UnloadPopLimiter(w)
  \/ \E w \in Threads : LoadImport(w)
  \/ \E w \in Threads : LoadStoreTool(w)
  \/ \E w \in Threads : LoadStoreHandler(w)
  \/ \E w \in Threads : LoadStoreLimiter(w)
  \/ \E name \in Names : HandleStart(name)
  \/ HandleCheckTool
  \/ HandleGetHandler
  \/ HandleCall

vars == <<rlVars, regVars, concVars, loopVars, watchVars>>

\* The ToolManager, one completed operation per step.
Spec == Init /\ [][Next]_vars

\* One RateLimiter shared by the threads of Callers.
RLSpec == InitBare /\ [][RLNext]_vars

\* Two of the threads share the limiter: t1, and t2, which makes its calls of
\* wait_for_slot during the first second only.
FairCallers == {"t1", "t2"}

RLStartEarly(c) == rlClock = 0 /\ RLStart(c)

RLFairNext ==
  \/ RLStart("t1")
  \/ RLStartEarly("t2")
  \/ \E c \in FairCallers : RLAcquire(c)
  \/ \E c \in FairCallers : RLPurgeCheck(c)
  \/ \E c \in FairCallers : RLAppend(c)
  \/ \E c \in FairCallers : RLReject(c)
  \/ \E c \in FairCallers : RLWake(c)
  \/ \E c \in FairCallers : RLReturn(c)
  \/ RLTick

\* The clock goes on, and a thread inside wait_for_slot that can take its next
\* step (take the free lock, run the body of can_make_request, return from
\* time.sleep) takes it.  Nothing obliges a thread to call wait_for_slot.
RLFairness ==
  /\ WF_vars(RLTick)
  /\ \A c \in FairCallers :
       WF_vars(RLAcquire(c) \/ RLPurgeCheck(c) \/ RLAppend(c) \/ RLReject(c) \/ RLWake(c))

\* RLFairSpec: the limiter's threads under a scheduler that lets each of them run.
RLFairSpec == InitBare /\ [][RLFairNext]_vars /\ RLFairness

\* The server after construction over a tools directory that holds alpha.py, a
\* tool limited to one call per window, and beta.py, a tool without a limit.
InitLoop ==
  /\ RLInit
  /\ ConcInit
  /\ LoopInit
  /\ WatchInit
  /\ files = [st \in Names |-> IF st = "alpha" THEN Changed(st) ELSE Plain(st)]
  /\ configs = [st \in Names |-> NoConfig]
  /\ environ = {}
  /\ edits = 0
  /\ clock = 0
  /\ tools = LoadEach(EmptyRegistry, <<"alpha", "beta">>, <<>>).reg.tools
  /\ handlers = LoadEach(EmptyRegistry, <<"alpha", "beta">>, <<>>).reg.handlers
  /\ rate_limiters = LoadEach(EmptyRegistry, <<"alpha", "beta">>, <<>>).reg.rate_limiters
  /\ last = [op |-> "init"]

\* The two watchdog handlers over the directories, one event at a time.
WatchSpec == InitBare /\ [][WatchNext]_vars

\* One handle_tool call against the watchdog threads' unloads and reloads.
CallSpec == InitLoop /\ [][CallNext]_vars

\* The tools/call coroutines on the event loop's one thread.
LoopSpec == InitLoop /\ [][LoopNext]_vars

\* The writing threads against the dispatching thread, statement by statement.
ConcSpec == InitServing /\ [][ConcNext]_vars

(***************************************************************************)
(* Properties of the rate limiter (checked under RLSpec).                  *)
(***************************************************************************)
\* Admissions whose timestamp lies in the interval (t - W, t].
AdmissionsInWindow(t) ==
  SumOver(tsCount, {u \in 0..MaxClock : u > t - time_window_seconds /\ u <= t})

MinOf(S) == CHOOSE x \in S : \A y \in S : x <= y

\* Every timestamp ever appended to requests.
Recorded == {u \in 0..MaxClock : tsCount[u] > 0}

Admitted == {c \in Callers : rlpc[c] = "done"}

\* C3: under every interleaving of concurrent can_make_request callers, the number
\* of retained admission timestamps never exceeds max_requests.
C3_RetainedNeverExceedsMax == Len(requests) <= max_requests

\* The cap is reached and one thread has been refused while another is inside
\* can_make_request waiting for the lock.
C3_Witness ==
  /\ Len(requests) = max_requests
  /\ \E c, d \in Callers : rlpc[c] = "reject" /\ rlpc[d] = "acquire"

C5_ThreeCallers ==
  /\ ( /\ \A c \in Callers : calls[c] = 1 /\ rlpc[c] \in {"done", "sleep"}
       /\ rlClock = firstStart )
       => Cardinality({c \in Callers : rlpc[c] = "done"}) = max_requests
  /\ ( /\ \A c \in Callers : calls[c] = 1
       /\ Admitted = Callers )
       => lastAdmitAt - MinOf(Recorded) > time_window_seconds

\* All three calls started at clock 0, two were admitted at clock 0 and the third
\* has been admitted later.
C5_Witness ==
  /\ firstStart = 0
  /\ \A c \in Callers : calls[c] = 1 /\ rlpc[c] = "done"
  /\ tsCount[0] = max_requests
  /\ lastAdmitAt > time_window_seconds

\* C26: self.requests is ordered, oldest first, whichever way the threads calling
\* can_make_request interleave: no timestamp stands before a smaller one, so the
\* popleft loop, which stops at the first timestamp that is not old, leaves no old
\* timestamp behind it.  Checked under RLSpec.
C26_TimestampsNonDecreasing ==
  \A i, j \in DOMAIN requests : i < j => requests[i] <= requests[j]

\* t2 is not inside wait_for_slot and its time for calling it is over: from now on
\* only t1 takes slots.
OthersFinished == rlpc["t2"] \in {"idle", "done"} /\ rlClock > 0

\* C28: wait_for_slot retries after every pause and gives up on nothing.  For a
\* limiter with max_requests >= 1, under RLFairSpec (the clock goes on, the threads
\* run): the thread t1, waiting while no other thread takes slots any more, goes
\* on retrying until it is admitted or its pause reaches past the last modelled
\* second; and when it sleeps after a refusal, every retained timestamp being old
\* by the end of its pause, it is admitted.
C28_WaitingCallerEventuallyAdmitted ==
  /\ (rlpc["t1"] \in {"acquire", "locked", "reject", "sleep"} /\ OthersFinished)
       ~> (rlpc["t1"] = "done" \/ (rlpc["t1"] = "sleep" /\ sleptAt["t1"] = MaxClock))
  /\ ( /\ rlpc["t1"] = "sleep"
       /\ sleptAt["t1"] < MaxClock
       /\ OthersFinished
       /\ requests # <<>>
       /\ \A i \in DOMAIN requests :
            sleptAt["t1"] + SleepSeconds - requests[i] > time_window_seconds )
       ~> rlpc["t1"] = "done"

\* t1 was refused while t2's two admissions of second 0 filled the limiter, and has
\* been admitted once they had left the window.
C28_Witness ==
  /\ rlpc["t1"] = "done"
  /\ calls["t1"] = 1
  /\ calls["t2"] = max_requests
  /\ OthersFinished
  /\ tsCount[0] = max_requests
  /\ Len(requests) = 1
  /\ requests[1] > time_window_seconds

(***************************************************************************)
(* Properties of the registry and of the dispatch (checked under Spec).    *)
(***************************************************************************)
Registered == DOMAIN tools \cup DOMAIN handlers \cup DOMAIN rate_limiters

\* The reply is a list holding one TextContent.
IsContentList(v) ==
  /\ v.type = "list"
  /\ Len(v.value) = 1
  /\ v.value[1].type = "text"

\* The JSON document of a reply is an object with a status of success or error, an
\* error envelope carrying its message.
HasStatus(v) ==
  LET doc == v.value[1].text
  IN /\ doc.json = "object"
     /\ "status" \in DOMAIN doc.of
     /\ doc.of.status \in {"success", "error"}
     /\ doc.of.status = "error" => "error" \in DOMAIN doc.of

IsErrorReply(v) == IsContentList(v) /\ HasStatus(v) /\ v.value[1].text.of.status = "error"

UnknownToolReply(name) == Returned(Reply(ErrorEnvelope(UnknownToolMsg(name))))

\* C1: after completed load, load-all, reload, reload-all and unload operations no
\* name is registered in part.  The limiter entry is taken to be owed only to tools
\* that declare a rate limit (load_tool stores one only then): a name has a
\* descriptor exactly when it has a handler, and a limiter only together with both.
C1_AllOrNone ==
  \A n \in Names :
    /\ n \in DOMAIN tools <=> n \in DOMAIN handlers
    /\ n \in DOMAIN rate_limiters => n \in DOMAIN tools

\* C6: a dispatch of a name that is not registered returns the envelope
\* {status: error, error: "Unknown tool: <name>"} and does not raise, whatever the
\* registry holds.
C6_UnknownTool ==
  (last.op = "dispatch" /\ last.name \notin DOMAIN tools)
    => last.out = UnknownToolReply(last.name)

\* A name that is not registered was dispatched while another tool is registered.
C6_Witness ==
  /\ last.op = "dispatch"
  /\ last.name \notin DOMAIN tools
  /\ DOMAIN tools # {}
  /\ last.out = UnknownToolReply(last.name)

\* C7: a dispatch never raises: whatever the handler does, handle_tool returns a
\* content list, and when the handler or the business function raised, the reply is
\* an envelope with status error.
C7_DispatchNeverRaises ==
  last.op = "dispatch" =>
    /\ ~last.out.raised
    /\ IsContentList(last.out.value)
    /\ (last.bound.raised \/ last.beh \in {"raise", "raises"})
         => IsErrorReply(last.out.value)

\* The handler of a custom tool raised and handle_tool returned the error envelope.
C7_Witness ==
  /\ last.op = "dispatch"
  /\ last.bound.raised
  /\ ~last.out.raised
  /\ IsErrorReply(last.out.value)

\* C8: every reply of a dispatch carries the status discriminator, for unregistered
\* names and for every value the business function of a decorated tool returns.
C8_StatusDiscriminator ==
  (/\ last.op = "dispatch"
   /\ last.name \in DOMAIN handlers => handlers[last.name].kind = "decorated")
    => /\ ~last.out.raised
       /\ IsContentList(last.out.value)
       /\ HasStatus(last.out.value)

C10_FailedLoadLeavesNothing ==
  (last.op = "load" /\ ~last.ok /\ last.fresh)
    => /\ last.name \notin Registered
       /\ \A i \in DOMAIN get_tool_list(Registry) :
            get_tool_list(Registry)[i].name # last.name
       /\ handle_tool(Registry, last.name, TRUE, "none", clock).out
            = UnknownToolReply(last.name)

\* The entries of get_tool_list() that carry the name n.
ListedAs(reg, n) ==
  { i \in DOMAIN get_tool_list(reg) : get_tool_list(reg)[i].name = n }

\* <stem>.py holds a definition whose REQUIRED_ENV_VARS are not all set.
LacksEnv(st) ==
  /\ files[st] \notin {NoFile, NoDecorated}
  /\ "REQUIRED_ENV_VARS" \in DOMAIN files[st]
  /\ \E v \in files[st].REQUIRED_ENV_VARS : v \notin environ

\* Some file other than <st>.py holds a definition of the name n.
DeclaredElsewhere(st, n) ==
  \E o \in Names \ {st} : files[o] \notin {NoFile, NoDecorated} /\ files[o].TOOL_NAME = n

\* C11: a definition that requires an environment variable that is not set does not
\* register.  In every state, for every file holding such a definition: load_tool
\* returns False and changes no map; reload_tool of its stem fails and leaves the
\* declared name out of the maps and out of get_tool_list; load_tools_from_directory
\* and reload_tools do not report the stem as loaded, and afterwards the name is
\* listed only if it was registered before or another file declares it.  The load
\* and reload just made that failed for this reason left the name unlisted.
C11_MissingEnvNotRegistered ==
  /\ \A st \in Names :
       LacksEnv(st) =>
         LET n == files[st].TOOL_NAME
             l == load_tool(Registry, st)
             r == reload_tool(Registry, st)
         IN /\ ~l.ok /\ l.reg = Registry
            /\ ~r.ok /\ r.reg = unload_tool(Registry, st)
            /\ st = n => (n \notin DOMAIN r.reg.tools /\ ListedAs(r.reg, n) = {})
            /\ \A order \in GlobOrders :
                 LET a == LoadEach(Registry, order, <<>>)
                     b == reload_tools(order)
                 IN /\ \A i \in DOMAIN a.loaded : a.loaded[i] # st
                    /\ \A i \in DOMAIN b.loaded : b.loaded[i] # st
                    /\ ListedAs(a.reg, n) # {}
                         => (n \in DOMAIN tools \/ DeclaredElsewhere(st, n))
                    /\ ListedAs(b.reg, n) # {} => DeclaredElsewhere(st, n)
  /\ (last.op = "load" /\ last.why = "missing env" /\ last.fresh)
       => (last.name \notin Registered /\ ListedAs(Registry, last.name) = {})
  /\ (last.op = "reload" /\ last.why = "missing env")
       => (last.name \notin Registered /\ ListedAs(Registry, last.name) = {})

\* A reload of alpha, registered until then, has just failed because alpha.py now
\* requires API_KEY, which is not set.
C11_Witness ==
  /\ last.op = "reload"
  /\ last.why = "missing env"
  /\ last.old # "none"
  /\ LacksEnv(last.name)

\* C12: get_tool_list() holds exactly one entry for every registered name and no
\* other entry; a load of a name that was registered already leaves one entry for
\* it, the one of the definition just loaded.
C12_OneEntryPerName ==
  /\ Len(get_tool_list(Registry)) = Cardinality(DOMAIN tools)
  /\ \A n \in Names :
       Cardinality(ListedAs(Registry, n)) = IF n \in DOMAIN tools THEN 1 ELSE 0
  /\ (last.op = "load" /\ last.ok /\ ~last.fresh)
       => \A i \in ListedAs(Registry, last.name) :
            get_tool_list(Registry)[i] = Descriptor(files[last.stem])

\* beta.py, which declares the tool alpha a second time, has just been loaded over
\* the registered alpha: one tool is listed, with the description beta.py declares.
C12_Witness ==
  /\ last.op = "load"
  /\ last.ok
  /\ ~last.fresh
  /\ last.stem # last.name
  /\ Len(get_tool_list(Registry)) = 1
  /\ get_tool_list(Registry)[1].description = "d2"

\* C13: after reload_tool(name) has succeeded for a tool whose source is <name>.py,
\* get_tool_list() has one entry of that name and it carries the description the
\* file declares now; the same holds of the reload that could be made in any state
\* for any registered name.
C13_ReloadShowsNewDescription ==
  /\ (last.op = "reload" /\ last.ok /\ files[last.name].TOOL_NAME = last.name)
       => /\ Cardinality(ListedAs(Registry, last.name)) = 1
          /\ \A i \in ListedAs(Registry, last.name) :
               get_tool_list(Registry)[i].description
                 = files[last.name].TOOL_DESCRIPTION
  /\ \A n \in DOMAIN tools :
       (files[n] \notin {NoFile, NoDecorated} /\ files[n].TOOL_NAME = n)
         => LET r == reload_tool(Registry, n)
            IN r.ok => /\ Cardinality(ListedAs(r.reg, n)) = 1
                       /\ \A i \in ListedAs(r.reg, n) :
                            get_tool_list(r.reg)[i].description
                              = files[n].TOOL_DESCRIPTION

\* A tool registered with the description d1 was edited to declare d2 and its
\* reload has just succeeded.
C13_Witness ==
  /\ last.op = "reload"
  /\ last.ok
  /\ last.old = "d1"
  /\ files[last.name].TOOL_NAME = last.name
  /\ files[last.name].TOOL_DESCRIPTION = "d2"

\* C18: unload_tool is idempotent.  In every state and for every name: unloading a
\* name that has no descriptor changes no map, unloading twice gives the registry
\* that unloading once gives, and a dispatch of the name after the unload returns
\* the Unknown tool envelope; after the unload just made, a second one would change
\* nothing and a dispatch of the name returns the Unknown tool envelope.
C18_UnloadIdempotent ==
  /\ \A n \in Names :
       LET once == unload_tool(Registry, n)
       IN /\ n \notin DOMAIN tools => once = Registry
          /\ unload_tool(once, n) = once
          /\ handle_tool(once, n, TRUE, "none", clock).out = UnknownToolReply(n)
  /\ last.op = "unload"
       => /\ unload_tool(Registry, last.name) = Registry
          /\ handle_tool(Registry, last.name, TRUE, "none", clock).out
               = UnknownToolReply(last.name)

\* A name without a descriptor has just been unloaded while another tool is
\* registered.
C18_Witness ==
  /\ last.op = "unload"
  /\ ~last.was
  /\ DOMAIN tools # {}
  /\ DOMAIN handlers # {}

\* C19: reload_tool(name) of a registered name whose <name>.py is gone leaves the
\* name in none of the three maps and unlisted, both in the reload just made and in
\* the reload that could be made in any state.
C19_ReloadOfMissingSourceUnregisters ==
  /\ (last.op = "reload" /\ last.old # "none" /\ files[last.name] = NoFile)
       => (last.name \notin Registered /\ ListedAs(Registry, last.name) = {})
  /\ \A n \in DOMAIN tools :
       files[n] = NoFile
         => LET r == reload_tool(Registry, n)
            IN /\ ~r.ok
               /\ n \notin DOMAIN r.reg.tools \cup DOMAIN r.reg.handlers
                             \cup DOMAIN r.reg.rate_limiters
               /\ ListedAs(r.reg, n) = {}

\* A registered tool whose file was deleted has just been reloaded.
C19_Witness ==
  /\ last.op = "reload"
  /\ last.old # "none"
  /\ last.why = "not found"
  /\ files[last.name] = NoFile

\* C20: after a reload_tools() in which no load_tool succeeded the three maps are
\* empty and get_tool_list() is empty.
C20_FailedReloadAllLeavesNothing ==
  (last.op = "reload all" /\ last.loaded = <<>>)
    => (Registered = {} /\ get_tool_list(Registry) = <<>>)

\* C21: load_tools_from_directory and reload_tools are best-effort.  In every state
\* and for every order in which glob may yield the files, every file that load_tool
\* can load is reported as loaded and its declared name has a descriptor and a
\* handler afterwards, wherever in the order the files that fail (no file content
\* to register, a missing environment variable, an exception inside load_tool)
\* stand; the call returns its list in each of these cases.
C21_LoadAllBestEffort ==
  \A order \in GlobOrders :
    LET a == LoadEach(Registry, order, <<>>)
        b == reload_tools(order)
    IN \A i \in DOMAIN order :
         load_tool(Registry, order[i]).ok =>
           LET n == files[order[i]].TOOL_NAME
           IN /\ n \in DOMAIN a.reg.tools \cap DOMAIN a.reg.handlers
              /\ n \in DOMAIN b.reg.tools \cap DOMAIN b.reg.handlers
              /\ \E j \in DOMAIN a.loaded : a.loaded[j] = order[i]
              /\ \E j \in DOMAIN b.loaded : b.loaded[j] = order[i]

\* load_tools_from_directory has just gone through two files of which the first
\* failed to load and the second, which is still there, was loaded.
C21_Witness ==
  /\ last.op = "load all"
  /\ Len(last.order) = 2
  /\ last.loaded = <<last.order[2]>>
  /\ ~load_tool(Registry, last.order[1]).ok
  /\ load_tool(Registry, last.order[2]).ok
  /\ files[last.order[2]].TOOL_NAME \in DOMAIN tools

\* C22: the list load_tools_from_directory returns holds exactly the names under
\* which the call registered tools.  For every order in which glob may yield the
\* files: every returned name is listed by get_tool_list() afterwards, every name
\* the call added to self.tools is returned, and after reload_tools, which starts
\* from empty maps, the returned names are the registered names.
C22_LoadAllReturnsRegisteredNames ==
  \A order \in GlobOrders :
    LET a == LoadEach(Registry, order, <<>>)
        b == reload_tools(order)
    IN /\ \A j \in DOMAIN a.loaded : ListedAs(a.reg, a.loaded[j]) # {}
       /\ \A n \in DOMAIN a.reg.tools \ DOMAIN tools :
            \E j \in DOMAIN a.loaded : a.loaded[j] = n
       /\ { b.loaded[j] : j \in DOMAIN b.loaded } = DOMAIN b.reg.tools

\* C23: arguments that fail the input schema make the bound handler return the
\* error envelope {status: "error", error: <message>} as its content, without
\* calling the business function and without raising, whatever the business
\* function would have done; the dispatch just made with such arguments got this
\* from the bound handler and passed it on.
C23_InvalidArgumentsGiveErrorEnvelope ==
  /\ \A beh \in BusinessBehaviours :
       LET r == decorated_run(FALSE, beh)
       IN /\ ~r.called
          /\ ~r.ret.raised
          /\ IsErrorReply(r.ret.value)
          /\ DOMAIN r.ret.value.value[1].text.of = {"status", "error"}
          /\ r.ret.value.value[1].text.of.error # <<>>
  /\ (last.op = "dispatch" /\ ~last.args_ok)
       => /\ last.bound = decorated_run(FALSE, last.beh).ret
          /\ ~last.bound.raised
          /\ IsErrorReply(last.bound.value)
          /\ last.out = last.bound

\* A decorated tool has just been dispatched with arguments its schema rejects.
C23_Witness ==
  /\ last.op = "dispatch"
  /\ ~last.args_ok
  /\ last.name \in DOMAIN handlers
  /\ handlers[last.name].kind = "decorated"
  /\ IsErrorReply(last.out.value)

\* C24: the bound handler wraps what the business function returns: a str, an int,
\* a float or a bool v becomes {"result": v}, a list v becomes {"results": v}, and a
\* dict that carries a status is passed on as it is.  The dispatch just made of a
\* decorated tool with valid arguments returned the JSON text of that document.
C24_ResultsAreNormalized ==
  /\ \A beh \in {"str", "int", "float", "bool"} :
       LET v == BusinessCall(beh).value
       IN /\ v.type = beh
          /\ Normalize(v).type = "dict"
          /\ Normalize(v).value = [result |-> v]
          /\ decorated_run(TRUE, beh).ret = Returned(Reply(PyDict([result |-> v])))
  /\ LET v == BusinessCall("list").value
     IN /\ v.type = "list"
        /\ Normalize(v).type = "dict"
        /\ DOMAIN Normalize(v).value = {"results"}
        /\ Normalize(v).value.results = v
        /\ decorated_run(TRUE, "list").ret = Returned(Reply(PyDict([results |-> v])))
  /\ LET v == BusinessCall("envelope").value
     IN /\ v.type = "dict" /\ "status" \in DOMAIN v.value
        /\ Normalize(v) = v
        /\ decorated_run(TRUE, "envelope").ret = Returned(Reply(v))
  /\ (last.op = "dispatch" /\ last.args_ok /\ last.bound # NotCalled
        /\ last.beh \in {"str", "int", "float", "bool", "list", "envelope"})
       => LET v == BusinessCall(last.beh).value
              doc == last.bound.value.value[1].text
          IN /\ ~last.bound.raised
             /\ doc.json = "object"
             /\ doc.of = IF last.beh = "list" THEN [results |-> v]
                         ELSE IF last.beh = "envelope" THEN v.value
                         ELSE [result |-> v]

\* A decorated tool whose business function returns a scalar has just been
\* dispatched with valid arguments and answered {"result": v}.
C24_Witness ==
  /\ last.op = "dispatch"
  /\ last.args_ok
  /\ last.beh \in {"int", "bool"}
  /\ last.bound # NotCalled
  /\ DOMAIN last.out.value.value[1].text.of = {"result"}

\* C25: register_tool merges the external configuration over config_defaults key by
\* key: the keys of the result are the keys of both, a key of the external
\* configuration carries the external value whole (a nested mapping is replaced,
\* not merged into), every other key keeps its default.  Defaults {a: 1, b: 2} with
\* external {b: 3, c: 4} give {a: 1, b: 3, c: 4}.  In every state the handler that
\* load_tool stores for a decorated tool carries the merge of config_defaults with
\* what get_tool_config returns.
C25_ConfigMergedOverDefaults ==
  /\ Merge([a |-> 1, b |-> 2], [b |-> 3, c |-> 4]) = [a |-> 1, b |-> 3, c |-> 4]
  /\ Merge(config_defaults, EmptyDict) = config_defaults
  /\ LET nested == Merge([n |-> [x |-> 1, y |-> 2], a |-> 1], [n |-> [x |-> 9]])
     IN DOMAIN nested = {"n", "a"} /\ nested.n = [x |-> 9] /\ nested.a = 1
  /\ \A st \in Names :
       LET l == load_tool(Registry, st)
       IN (l.ok /\ files[st].kind = "decorated") =>
            LET external == get_tool_config(st).value
                merged == l.reg.handlers[l.name].config
            IN /\ DOMAIN merged = DOMAIN config_defaults \cup DOMAIN external
               /\ \A k \in DOMAIN external : merged[k] = external[k]
               /\ \A k \in DOMAIN config_defaults \ DOMAIN external :
                    merged[k] = config_defaults[k]

\* A decorated tool has just been loaded while its configuration file held
\* {b: 3, c: 4}: its handler carries {a: 1, b: 3, c: 4}.
C25_Witness ==
  /\ last.op = "load"
  /\ last.ok
  /\ last.name \in DOMAIN handlers
  /\ handlers[last.name].kind = "decorated"
  /\ configs[last.stem] = MappingDoc
  /\ handlers[last.name].config = [a |-> 1, b |-> 3, c |-> 4]

\* C27: right after a load_tool or reload_tool that succeeded, the name it
\* registered has a limiter exactly when the definition just loaded declares a rate
\* limit, and that limiter is the one this load created, with an empty history: no
\* limiter of an earlier registration of the name is still attached.
C27_LimiterMatchesDefinition ==
  /\ (last.op = "load" /\ last.ok) =>
       LET def == files[last.stem]
       IN /\ last.name \in DOMAIN rate_limiters <=> HasRateLimit(def)
          /\ last.name \in DOMAIN rate_limiters =>
               rate_limiters[last.name] = NewRateLimiter(def.rate_limit[1], rate_limit_window)
  /\ (last.op = "reload" /\ last.ok) =>
       LET def == files[last.name]
           n == def.TOOL_NAME
       IN /\ n \in DOMAIN rate_limiters <=> HasRateLimit(def)
          /\ n \in DOMAIN rate_limiters =>
               rate_limiters[n] = NewRateLimiter(def.rate_limit[1], rate_limit_window)

\* C29: load_tool gives a tool the configuration filed under the name the tool
\* declares, also when the file that defines it has another stem: in every state,
\* for every file that load_tool can load as a decorated tool, the handler it stores
\* carries config_defaults merged with the mapping of config/<declared name>.yaml.
C29_ConfigLookedUpByDeclaredName ==
  \A st \in Names :
    LET l == load_tool(Registry, st)
    IN (l.ok /\ files[st].kind = "decorated"
          /\ get_tool_config(files[st].TOOL_NAME).kind = "mapping")
         => l.reg.handlers[l.name].config
              = Merge(config_defaults, get_tool_config(files[st].TOOL_NAME).value)

\* C30: the configuration is read when a tool is registered and at no other time.
\* Writing a configuration file changes no handler; a dispatch passes the business
\* function the configuration its handler was registered with, whatever the file
\* holds by then; and an accepted modify event for config/<stem>.yaml runs
\* reload_tool(stem), after which, if it succeeded for a decorated tool, the handler
\* carries the configuration the file holds now.
C30_ConfigReadAtRegistrationOnly ==
  /\ [][(\E st \in ConfigStems, doc \in ConfigDocs : WriteConfig(st, doc))
          => handlers' = handlers]_vars
  /\ [][\A st \in ConfigStems :
          OnConfigModified(st) => Registry' = reload_tool(Registry, st).reg]_vars
  /\ []((last.op = "dispatch" /\ last.bound # NotCalled)
          => last.config = handlers[last.name].config)
  /\ []((last.op = "config event" /\ last.ok /\ files[last.name].kind = "decorated")
          => handlers[files[last.name].TOOL_NAME].config
               = Merge(config_defaults, configs[last.name].value))

\* A decorated tool registered with the defaults alone has just been dispatched
\* after its configuration file was written, and was passed the defaults.
C30_Witness ==
  /\ last.op = "dispatch"
  /\ last.bound # NotCalled
  /\ handlers[last.name].kind = "decorated"
  /\ configs[last.name] = MappingDoc
  /\ last.config = config_defaults

C37_StemAddressesNothingWhenNameDiffers ==
  \A st \in Names :
    ( /\ files[st] \notin {NoFile, NoDecorated}
      /\ files[st].TOOL_NAME # st
      /\ files[st].TOOL_NAME \in DOMAIN tools \cap DOMAIN handlers )
    => LET n == files[st].TOOL_NAME
           u == unload_tool(Registry, st)
           r == reload_tool(Registry, st)
       IN /\ n \in DOMAIN u.tools /\ u.tools[n] = tools[n]
          /\ n \in DOMAIN u.handlers /\ u.handlers[n] = handlers[n]
          /\ (n \in DOMAIN rate_limiters)
               => (n \in DOMAIN u.rate_limiters /\ u.rate_limiters[n] = rate_limiters[n])
          /\ st \notin DOMAIN tools =>
               /\ u = Registry
               /\ r.reg = load_tool(Registry, st).reg
               /\ r.ok =>
                    /\ DOMAIN r.reg.tools = DOMAIN tools
                    /\ DOMAIN r.reg.handlers = DOMAIN handlers
                    /\ r.reg.tools[n] = Descriptor(files[st])
                    /\ r.reg.handlers[n] = register_tool(files[st], get_tool_config(st))
                    /\ \A o \in DOMAIN tools \ {n} : r.reg.tools[o] = tools[o]
                    /\ DOMAIN rate_limiters \subseteq DOMAIN r.reg.rate_limiters

\* unload_tool has just been called with the stem of a file that declares another
\* name: the stem was not registered and the declared name still is.
C37_Witness ==
  /\ last.op = "unload"
  /\ ~last.was
  /\ files[last.name] \notin {NoFile, NoDecorated}
  /\ files[last.name].TOOL_NAME # last.name
  /\ files[last.name].TOOL_NAME \in DOMAIN tools \cap DOMAIN handlers
  /\ tools[files[last.name].TOOL_NAME].description = files[last.name].TOOL_DESCRIPTION

(***************************************************************************)
(* Properties of the watchdog handlers (checked under WatchSpec).          *)
(***************************************************************************)
\* C31: every accepted modify or create event of the tools directory records the
\* handler's last-action time: right after on_modified or on_created handled an
\* event for a tool file that came reload_delay or more after self.last_reload,
\* self.last_reload is the time of that event, so that a further event within the
\* delay is ignored.
C31_AcceptedEventsRecordTime ==
  ( /\ last.op = "tool event"
    /\ last.kind \in {"modified", "created"}
    /\ ~last.ev.is_directory
    /\ IsToolFile(last.ev)
    /\ last.at - last.since >= reload_delay )
  => last_reload.tools = last.at

\* C32: self.last_reload is one value for all the files of a handler.  When the
\* event handled last was an accepted modification of the tool file a, an event of
\* any kind for another tool file b that comes less than reload_delay after it
\* changes none of the three dicts and not self.last_reload: b is not reloaded.
C32_DebounceSharedAcrossFiles ==
  [][\A a, b \in Names : \A kind \in {"modified", "created", "deleted"} :
       ( /\ a # b
         /\ last.op = "tool event"
         /\ last.kind = "modified"
         /\ last.ev = FileEvent(a, ".py")
         /\ last_reload.tools = last.at
         /\ wtime - last_reload.tools < reload_delay
         /\ ToolEvent(kind, FileEvent(b, ".py")) )
       => UNCHANGED <<tools, handlers, rate_limiters, last_reload>>]_vars

\* A modification of beta.py has just been ignored inside the delay that an
\* accepted modification of alpha.py started: alpha is registered, beta.py exists
\* and beta is not.
C32_Witness ==
  /\ last.op = "tool event"
  /\ last.kind = "modified"
  /\ last.ev = FileEvent("beta", ".py")
  /\ last.since > 0
  /\ last.at - last.since < reload_delay
  /\ last.at > last.since
  /\ last_reload.tools = last.since
  /\ files["beta"] # NoFile
  /\ "beta" \notin DOMAIN tools
  /\ "alpha" \in DOMAIN tools

C36_DebouncedDeleteIsLost ==
  /\ [][\A st \in Names :
          (ToolEvent("deleted", FileEvent(st, ".py"))
             /\ wtime - last_reload.tools < reload_delay)
          => UNCHANGED <<tools, handlers, rate_limiters, last_reload>>]_vars
  /\ []( ( /\ last.op = "tool event"
           /\ last.kind = "deleted"
           /\ ~last.ev.is_directory
           /\ IsToolFile(last.ev)
           /\ last.at - last.since < reload_delay
           /\ last.was )
         => /\ files[last.ev.stem] = NoFile
            /\ last.ev.stem \in DOMAIN tools \cap DOMAIN handlers
            /\ handle_tool(Registry, last.ev.stem, TRUE, "none", clock).bound # NotCalled )
  /\ [][<<tools, handlers, rate_limiters>>' # <<tools, handlers, rate_limiters>>
          => ( /\ last'.op \in {"tool event", "config event"}
               /\ last'.at - last'.since >= reload_delay )]_vars

\* The delete event for alpha.py has just been dropped inside the delay after an
\* accepted modification: alpha.py is gone and alpha is registered.
C36_Witness ==
  /\ last.op = "tool event"
  /\ last.kind = "deleted"
  /\ last.ev = FileEvent("alpha", ".py")
  /\ last.since > 0
  /\ last.at - last.since < reload_delay
  /\ files["alpha"] = NoFile
  /\ "alpha" \in DOMAIN tools \cap DOMAIN handlers

(***************************************************************************)
(* Properties of one dispatch against unloads and reloads (checked under   *)
(* CallSpec).                                                              *)
(***************************************************************************)
\* C35: handle_tool uses the handler and the limiter it found at lines 46 and 59
\* for the rest of the call.  The handler it invokes is the one it looked up; when
\* it looked a limiter up, the slot it ran in was granted by that limiter object,
\* whatever was unloaded or reloaded meanwhile; and a limiter that a reload put in
\* the dict after the lookup has admitted nothing.
C35_DispatchKeepsCapturedHandlerAndLimiter ==
  /\ hcall.out = "called" => hcall.ran = hcall.handler
  /\ (hcall.out = "called" /\ hcall.rate_limiter # PyMissing)
       => /\ hcall.slot >= 0
          /\ \E i \in DOMAIN hcall.rate_limiter.requests :
                hcall.rate_limiter.requests[i] = hcall.slot
  /\ (hcall.rate_limiter # PyMissing /\ ~hcall.shared
         /\ hcall.name \in DOMAIN rate_limiters)
       => rate_limiters[hcall.name].requests = <<>>

\* A call for alpha slept in wait_for_slot, alpha was unloaded or reloaded during
\* that sleep, and the call has run the handler it had looked up, which is not
\* what self.handlers holds for alpha now.
C35_Witness ==
  /\ hcall.out = "called"
  /\ hcall.name = "alpha"
  /\ hcall.waited
  /\ hcall.lost = "sleep"
  /\ hcall.ran = hcall.handler
  /\ Get(handlers, "alpha") # hcall.ran

(***************************************************************************)
(* Properties of the interleaved manager (checked under ConcSpec).         *)
(***************************************************************************)
\* C2: load_tool's three entries appear in one atomic step: a dispatch running
\* beside a load never finds the descriptor of a name without its handler, that is,
\* never answers Handler not found because it read self.handlers after load_tool
\* had stored the descriptor and before it stored the handler.
C2_DispatchNeverSeesPartial == ~(dout = "handler not found" /\ dmid = "load")

\* C14: reload_tool(name) replaces the entries of a registered name in one step as
\* far as a dispatch of that name can tell: no dispatch answers Unknown tool
\* because it read self.tools after reload_tool had removed the old descriptor and
\* before it stored the new one.
C14_ReloadAtomicForDispatch == ~(dout = "unknown tool" /\ dmid = "reload")

\* C15: a dispatch that ran beside reload_tools(), and beside no other call, and
\* did not reach its handler returned the Unknown tool envelope, not another error.
C15_UnknownToolDuringReloadAll ==
  (dpc = "idle" /\ dsaw = {"reload all"} /\ dout \notin {"none", "called", "called, limited"})
    => dout = "unknown tool"

\* The entries of the name n are all absent or all those of one load: a descriptor
\* exactly when a handler, the handler of the descriptor's definition, and a limiter
\* only with both.
OneLoad(n) ==
  /\ n \in DOMAIN tools <=> n \in DOMAIN handlers
  /\ n \in DOMAIN rate_limiters => (n \in DOMAIN tools /\ n \in DOMAIN handlers)
  /\ (n \in DOMAIN tools /\ n \in DOMAIN handlers)
       => handlers[n].description = tools[n].description

\* C16: once the calls of the two observers' threads have all returned (no
\* reload_tools having run), every name's entries are all absent or all those of
\* one load.
C16_WatchersLeaveWholeEntries ==
  ((\A w \in Threads : wpc[w] = "idle") /\ wjob["caller"] = "none")
    => \A n \in Names : OneLoad(n)

\* C33: once on_deleted has run unload_tool(stem) for a deleted tool file and no
\* later event has come, the stem is in none of the three dicts: whenever every
\* thread is back from its call and <stem>.py does not exist (the last event for
\* the file was its deletion), the stem is not registered.
C33_DeleteEventUnregisters ==
  \A st \in Names :
    ((\A w \in Threads : wpc[w] = "idle") /\ files[st] = NoFile)
      => st \notin Registered

(***************************************************************************)
(* Properties of the event loop (checked under LoopSpec).                  *)
(***************************************************************************)
\* C17: a call stalled in wait_for_slot holds back no call of another tool: whenever
\* the coroutine of one call is inside time.sleep and a call of a different tool is
\* waiting to be run, the event loop's thread is free to run it.
C17_StallAffectsOnlyTheWaiter ==
  \A a, b \in Calls :
    (lpc[a] = "sleep" /\ lpc[b] = "ready" /\ lname[b] # lname[a]) => CanRun(b)

====
